---- MODULE Spec2Model ----
(***************************************************************************)
(* Swarm Relay: the SharedWorker hub (swarm-relay-worker.ts), the          *)
(* SharedWorkerTransport adapter (shared-worker-transport.ts) and the      *)
(* SwarmRelay client (swarm-relay.ts).                                     *)
(*                                                                         *)
(* Every connection attempt of an adapter creates one SharedWorker object  *)
(* with one MessagePort; the model names the attempt, its worker object,   *)
(* its timer, its handshake promise and both ends of its port by one port  *)
(* number.  The hub runs in its own thread; each client runs in its own    *)
(* event loop, whose microtasks run before its next task.                  *)
(***************************************************************************)
EXTENDS Integers, Sequences, FiniteSets, TLC

\* ---------------------------------------------------------------- bounds
MaxAttempts == 2
MaxSends == 1
MaxBurst == 2
MaxBlobUrls == 2
MaxErrors == 1
MaxInbox == 1

\* ------------------------------------------------------------ the domains
Clients == {"a", "b", "c"}
Events == {"e1", "e2"}
Handlers == {"h1", "h2"}
\* the handlers the application supplied that throw whenever they are called
ThrowingHandlers == {"h2"}
\* a port is named by the adapter that opened it and the number of the attempt
Ports == Clients \X (1..MaxAttempts)
NoPort == <<>>
owner(p) == p[1]
Null == "null"
NoTarget == "undefined"
NoUrl == 0

\* ConnectionState (types.ts)
Disconnected == "disconnected"
Connecting == "connecting"
Connected == "connected"
Error == "error"
ConnectionState == {Disconnected, Connecting, Connected, Error}

\* SwarmRelayErrorCode (errors.ts)
ConnectionFailed == "CONNECTION_FAILED"
NotConnected == "NOT_CONNECTED"
TransportError == "TRANSPORT_ERROR"
WorkerNotSupported == "WORKER_NOT_SUPPORTED"

VARIABLES
  ports,            \* hub: Map clientId -> MessagePort (NoPort: no entry)
  hubClientId,      \* hub: the closure variable clientId of each port
  toHub,            \* per port: messages posted by the client, not yet handled by the hub
  toClient,         \* per port: messages posted by the hub, not yet handled by the client
  nextPort,         \* per adapter: number of SharedWorker ports opened so far
  onmessage,        \* per port: the client-side port.onmessage handler
  timer,            \* per port: the handshake timeout is scheduled
  promise,          \* per port: the handshake promise of the attempt
  closed,           \* per port: the client called port.close()
  tstate,           \* adapter: _state
  tport,            \* adapter: this.port (NoPort: null)
  handshakeAbort,   \* adapter: this.handshakeAbort, named by its attempt (NoPort: null)
  messageHandlers,  \* adapter: the relay's handleMessage is in messageHandlers
  errorHandlers,    \* adapter: the relay's handleError is in errorHandlers
  rstate,           \* relay: _state
  handlers,         \* relay: Map event -> Set of handlers, in insertion order
  wildcardHandlers, \* relay: Set of wildcard handlers, in insertion order
  microtasks,       \* client event loop: rejected connect() calls whose catch has not run yet
  sent,             \* number of envelopes constructed so far (generateId)
  sentVia,          \* per envelope, by id: the port its sender's adapter held when it was built
  invoked,          \* per client: the handler invocations, in order
  thrown,           \* what the latest send()/broadcast() call, or call of the adapter's disconnect(), threw
  dropped,          \* ids of the targeted envelopes the hub found no port for
  reported,         \* per client: the error codes handed to the onError callback
  rejected,         \* per client: the error codes connect() calls rejected with
  handed,           \* the envelopes the latest send()/broadcast() passed to transport.send
  uncaught,         \* an exception of a handler left SwarmRelay.handleMessage
  lastCall,         \* per client: the latest of connect() and disconnect() the application called, on the relay or on its adapter
  unsubscribed,     \* per client: the <<event, handler>> subscriptions off()/offAny() removed and on()/onAny() has not made again
  bstate,           \* peer-broadcast adapter: _state
  bchannel,         \* peer-broadcast adapter: this.channel is an open BroadcastChannel (FALSE: null)
  bclientId,        \* peer-broadcast adapter: this.clientId (Null: null)
  bmessageHandlers, \* peer-broadcast adapter: a handler is in messageHandlers
  binbox,           \* per peer-broadcast adapter: the messages its channel has received and not yet handled
  surfaced,         \* per peer-broadcast adapter: the envelopes its latest handleMessage call gave to the message handlers
  berrorHandlers,   \* peer-broadcast adapter: a handler is in errorHandlers
  breported,        \* per peer-broadcast adapter: the error codes handed to its error handlers
  channelErrors,    \* per client: number of messageerror events its channels have raised
  bthrown,          \* what the latest call of a peer-broadcast adapter's send() or disconnect() threw
  sharedBlobUrl,    \* module level: sharedBlobUrl (NoUrl: null), the URLs numbered as they are created
  blobUrls,         \* number of URL.createObjectURL calls so far
  workerUrl         \* per port: the URL its SharedWorker was constructed with

hubVars == <<ports, hubClientId, toHub, toClient>>
portVars == <<nextPort, onmessage, timer, promise, closed>>
adapterVars == <<tstate, tport, handshakeAbort, messageHandlers, errorHandlers>>
relayVars == <<rstate, handlers, wildcardHandlers>>
histVars == <<sent, sentVia, invoked, thrown, dropped, reported>>
callVars == <<rejected, handed, uncaught, lastCall, unsubscribed>>
coreVars == <<hubVars, portVars, adapterVars, relayVars, microtasks, histVars, callVars>>
peerErrVars == <<berrorHandlers, breported, channelErrors>>
peerVars == <<bstate, bchannel, bclientId, bmessageHandlers, binbox, surfaced, bthrown, peerErrVars>>
blobVars == <<sharedBlobUrl, blobUrls, workerUrl>>
vars == <<coreVars, peerVars, blobVars>>

\* the port exists: connect() of its adapter has constructed the SharedWorker
Opened(p) == p[2] <= nextPort[p[1]]

\* ------------------------------------------------------- wire messages
RegisterMsg(c) == [type |-> "__swarm_register__", clientId |-> c, message |-> Null]
RegisteredMsg(c) == [type |-> "__swarm_registered__", clientId |-> c, message |-> Null]
DisconnectMsg == [type |-> "__swarm_disconnect__", clientId |-> Null, message |-> Null]
DataMsg(m) == [type |-> "__swarm_message__", clientId |-> Null, message |-> m]

\* SwarmMessage with the source and the target exchanged
SwarmMessageSwapped(id, source, target, event) ==
  [id |-> id, source |-> target, target |-> source, event |-> event, payload |-> "payload"]

SwarmMessage(id, source, target, event) ==
  [id |-> id, source |-> source, target |-> target, event |-> event, payload |-> "payload"]

\* Enqueue with the newest message handled first
EnqueueFirst(queue, msg) == <<msg>> \o queue

\* a message posted to a port joins the port's queue behind the earlier ones
Enqueue(queue, msg) == Append(queue, msg)

\* port.postMessage on a queue: a closed port receives nothing
Post(q, p, msg) == IF closed[p] THEN q ELSE [q EXCEPT ![p] = Enqueue(@, msg)]

Init ==
  /\ ports = [c \in Clients |-> NoPort]
  /\ hubClientId = [p \in Ports |-> Null]
  /\ toHub = [p \in Ports |-> <<>>]
  /\ toClient = [p \in Ports |-> <<>>]
  /\ nextPort = [c \in Clients |-> 0]
  /\ onmessage = [p \in Ports |-> "none"]
  /\ timer = [p \in Ports |-> FALSE]
  /\ promise = [p \in Ports |-> "none"]
  /\ closed = [p \in Ports |-> FALSE]
  /\ tstate = [c \in Clients |-> Disconnected]
  /\ tport = [c \in Clients |-> NoPort]
  /\ handshakeAbort = [c \in Clients |-> NoPort]
  /\ messageHandlers = [c \in Clients |-> FALSE]
  /\ errorHandlers = [c \in Clients |-> FALSE]
  /\ rstate = [c \in Clients |-> Disconnected]
  /\ handlers = [c \in Clients |-> [e \in Events |-> <<>>]]
  /\ wildcardHandlers = [c \in Clients |-> <<>>]
  /\ microtasks = [c \in Clients |-> <<>>]
  /\ sent = 0
  /\ sentVia = <<>>
  /\ sharedBlobUrl = NoUrl
  /\ blobUrls = 0
  /\ workerUrl = [p \in Ports |-> NoUrl]
  /\ invoked = [c \in Clients |-> <<>>]
  /\ thrown = "none"
  /\ dropped = {}
  /\ reported = [c \in Clients |-> {}]
  /\ rejected = [c \in Clients |-> {}]
  /\ handed = <<>>
  /\ uncaught = FALSE
  /\ lastCall = [c \in Clients |-> "none"]
  /\ unsubscribed = [c \in Clients |-> {}]
  /\ bstate = [c \in Clients |-> Disconnected]
  /\ bchannel = [c \in Clients |-> FALSE]
  /\ bclientId = [c \in Clients |-> Null]
  /\ bmessageHandlers = [c \in Clients |-> FALSE]
  /\ binbox = [c \in Clients |-> <<>>]
  /\ surfaced = [c \in Clients |-> <<>>]
  /\ bthrown = "none"
  /\ berrorHandlers = [c \in Clients |-> FALSE]
  /\ breported = [c \in Clients |-> {}]
  /\ channelErrors = [c \in Clients |-> 0]

\* ====================================================================
\* The hub (swarm-relay-worker.ts)
\* ====================================================================

\* RegistryAfterRegister keeping the first endpoint registered under a ClientId
RegistryFirstWins(p, c) == IF ports[c] # NoPort THEN ports ELSE [ports EXCEPT ![c] = p]

\* handleMessage, '__swarm_register__': ports.set(clientId, port)
RegistryAfterRegister(p, c) == [ports EXCEPT ![c] = p]

\* handleMessage '__swarm_disconnect__' and handleError:
\* if (clientId) ports.delete(clientId)
RegistryAfterUnregister(p) ==
  IF hubClientId[p] # Null THEN [ports EXCEPT ![hubClientId[p]] = NoPort] ELSE ports

\* RouteTargets with the target ignored: every envelope is fanned out
RouteTargetsFanOut(m) ==
  {ports[id] : id \in {i \in Clients : ports[i] # NoPort /\ i # m.source}}

\* RouteTargets without the sender filter of forwardBroadcast
RouteTargetsEcho(m) ==
  IF m.target # NoTarget
  THEN IF m.target \in Clients /\ ports[m.target] # NoPort
       THEN {ports[m.target]} ELSE {}
  ELSE {ports[id] : id \in {i \in Clients : ports[i] # NoPort}}

\* RouteTargets falling back to a broadcast when the target is unknown
RouteTargetsFallback(m) ==
  IF m.target # NoTarget /\ ports[m.target] # NoPort
  THEN {ports[m.target]}
  ELSE {ports[id] : id \in {i \in Clients : ports[i] # NoPort /\ i # m.source}}

\* handleMessage, '__swarm_message__': the ports the envelope is posted to
RouteTargets(m) ==
  IF m.target # NoTarget
  THEN IF m.target \in Clients /\ ports[m.target] # NoPort
       THEN {ports[m.target]} ELSE {}
  ELSE {ports[id] : id \in {i \in Clients : ports[i] # NoPort /\ i # m.source}}

\* RegistryAfterRoute with the hub learning the sender's endpoint from the envelope
RegistryAfterRouteLearns(p, m) == [ports EXCEPT ![m.source] = p]

\* handleMessage, '__swarm_message__': the branch calls neither ports.set nor
\* ports.delete
RegistryAfterRoute(p, m) == ports

\* what is posted to each of those ports
Forwarded(m) == DataMsg(m)

\* handleMessage, '__swarm_register__': the reply posted to the registering port
Acknowledgment(c) == RegisteredMsg(c)

\* port.onmessage = handleMessage: the hub handles the next message of port p
HubMessage(p) ==
  /\ Opened(p)
  /\ toHub[p] # <<>>
  /\ LET data == Head(toHub[p]) IN
     /\ toHub' = [toHub EXCEPT ![p] = Tail(@)]
     /\ IF data.type = "__swarm_register__"
        THEN /\ hubClientId' = [hubClientId EXCEPT ![p] = data.clientId]
             /\ ports' = RegistryAfterRegister(p, data.clientId)
             /\ toClient' = Post(toClient, p, Acknowledgment(data.clientId))
             /\ UNCHANGED dropped
        ELSE IF data.type = "__swarm_disconnect__"
        THEN /\ ports' = RegistryAfterUnregister(p)
             /\ hubClientId' = [hubClientId EXCEPT ![p] = Null]
             /\ UNCHANGED <<toClient, dropped>>
        ELSE /\ toClient' = [q \in Ports |->
                  IF q \in RouteTargets(data.message) /\ ~closed[q]
                  THEN Enqueue(toClient[q], Forwarded(data.message))
                  ELSE toClient[q]]
             /\ dropped' = IF data.message.target # NoTarget
                               /\ ports[data.message.target] = NoPort
                            THEN dropped \cup {data.message.id} ELSE dropped
             /\ ports' = RegistryAfterRoute(p, data.message)
             /\ UNCHANGED hubClientId
  /\ UNCHANGED <<portVars, adapterVars, relayVars, microtasks, sent, sentVia, invoked, thrown,
                 reported, callVars>>
  /\ UNCHANGED <<peerVars, blobVars>>

\* port.onmessageerror = handleError, on the hub's side of port p
HubMessageError(p) ==
  /\ Opened(p)
  /\ ports' = RegistryAfterUnregister(p)
  /\ hubClientId' = [hubClientId EXCEPT ![p] = Null]
  /\ UNCHANGED <<toHub, toClient, portVars, adapterVars, relayVars, microtasks,
                 histVars, callVars>>
  /\ UNCHANGED <<peerVars, blobVars>>

\* ====================================================================
\* SharedWorkerTransport and SwarmRelay
\* ====================================================================

\* SharedWorkerTransport.cleanup: port = null, worker = null, both handler sets cleared
\* (written out in each action that calls it)

\* ClearTimeout with the call forgotten: the timer stays scheduled
ClearTimeoutMissing(p) == timer

\* clearTimeout(timeout) of attempt p
ClearTimeout(p) == [timer EXCEPT ![p] = FALSE]

\* SwarmRelay.connect up to its await, with SharedWorkerTransport.connect and
\* handshake up to theirs
\* getOrCreateBlobUrl creating a new URL on every call
GetOrCreateBlobUrlFresh == blobUrls + 1

\* getOrCreateBlobUrl: the value of sharedBlobUrl after the call, which is the
\* URL returned
GetOrCreateBlobUrl == IF sharedBlobUrl = NoUrl THEN blobUrls + 1 ELSE sharedBlobUrl

\* the number of URLs created after a call of getOrCreateBlobUrl
BlobUrlsAfterGet == IF GetOrCreateBlobUrl = sharedBlobUrl THEN blobUrls ELSE blobUrls + 1

\* __resetSharedBlobUrl__: revokes the URL and forgets it
ResetSharedBlobUrl ==
  /\ blobUrls < MaxBlobUrls
  /\ sharedBlobUrl' = NoUrl
  /\ UNCHANGED <<coreVars, peerVars, blobUrls, workerUrl>>

Connect(c) ==
  /\ lastCall' = [lastCall EXCEPT ![c] = "connect"]
  /\ UNCHANGED <<rejected, handed, uncaught, unsubscribed>>
  /\ IF rstate[c] = Connected
     THEN \* 'Already connected': return
          UNCHANGED <<hubVars, portVars, adapterVars, relayVars, microtasks, histVars, blobVars>>
     ELSE
    /\ rstate' = [rstate EXCEPT ![c] = Connecting]
    /\ messageHandlers' = [messageHandlers EXCEPT ![c] = TRUE]
    /\ errorHandlers' = [errorHandlers EXCEPT ![c] = TRUE]
    /\ IF tstate[c] = Connected
       THEN \* transport.connect returns at once; the relay resumes in a microtask
            /\ microtasks' = [microtasks EXCEPT ![c] = Append(@, NoPort)]
            /\ UNCHANGED <<hubVars, portVars, tstate, tport, handshakeAbort, blobVars>>
       ELSE /\ nextPort[c] < MaxAttempts
            /\ LET p == <<c, nextPort[c] + 1>> IN
               /\ nextPort' = [nextPort EXCEPT ![c] = @ + 1]
               /\ tstate' = [tstate EXCEPT ![c] = Connecting]
               /\ tport' = [tport EXCEPT ![c] = p]
               /\ timer' = [timer EXCEPT ![p] = TRUE]
               /\ promise' = [promise EXCEPT ![p] = "pending"]
               /\ handshakeAbort' = [handshakeAbort EXCEPT ![c] = p]
               /\ onmessage' = [onmessage EXCEPT ![p] = "handshake"]
               /\ toHub' = [toHub EXCEPT ![p] = Append(@, RegisterMsg(c))]
               \* new SharedWorker(getOrCreateBlobUrl(), ...)
               /\ sharedBlobUrl' = GetOrCreateBlobUrl
               /\ blobUrls' = BlobUrlsAfterGet
               /\ workerUrl' = [workerUrl EXCEPT ![p] = GetOrCreateBlobUrl]
            /\ UNCHANGED <<ports, hubClientId, toClient, closed, microtasks>>
    /\ UNCHANGED <<handlers, wildcardHandlers, histVars>>
  /\ UNCHANGED peerVars

\* the ways the environment makes SharedWorkerTransport.connect throw before
\* the handshake: SharedWorker is undefined, or its constructor throws
EnvironmentFailures == {"unsupported", "construction"}

\* SwarmRelay.connect up to its await when SharedWorkerTransport.connect throws
\* before the handshake; the rejection reaches the relay's catch in a microtask
ConnectFails(c, why) ==
  /\ rstate[c] # Connected
  /\ tstate[c] # Connected
  /\ nextPort[c] + Len(microtasks[c]) < MaxAttempts
  /\ lastCall' = [lastCall EXCEPT ![c] = "connect"]
  /\ rstate' = [rstate EXCEPT ![c] = Connecting]
  /\ IF why = "unsupported"
     THEN \* thrown before _state is touched; the relay's handlers stay registered
          /\ messageHandlers' = [messageHandlers EXCEPT ![c] = TRUE]
          /\ errorHandlers' = [errorHandlers EXCEPT ![c] = TRUE]
          /\ UNCHANGED <<tstate, tport, sharedBlobUrl, blobUrls>>
     ELSE \* _state = Connecting; getOrCreateBlobUrl(); new SharedWorker throws;
          \* catch: _state = Error; cleanup()
          /\ sharedBlobUrl' = GetOrCreateBlobUrl
          /\ blobUrls' = BlobUrlsAfterGet
          /\ tstate' = [tstate EXCEPT ![c] = Error]
          /\ tport' = [tport EXCEPT ![c] = NoPort]
          /\ messageHandlers' = [messageHandlers EXCEPT ![c] = FALSE]
          /\ errorHandlers' = [errorHandlers EXCEPT ![c] = FALSE]
  /\ microtasks' = [microtasks EXCEPT ![c] = Append(@, <<why>>)]
  /\ UNCHANGED <<hubVars, portVars, handshakeAbort, handlers, wildcardHandlers,
                 histVars, rejected, handed, uncaught, unsubscribed>>
  /\ UNCHANGED <<peerVars, workerUrl>>

\* AlreadyDisconnected without the early return
AlreadyDisconnectedMissing(c) == FALSE

\* if (this._state === ConnectionState.Disconnected) return;
AlreadyDisconnected(c) == rstate[c] = Disconnected

\* Disconnect with the early return taken in every state
DisconnectReturns(c) ==
  /\ lastCall' = [lastCall EXCEPT ![c] = "disconnect"]
  /\ UNCHANGED <<hubVars, portVars, adapterVars, relayVars, microtasks, histVars,
                 rejected, handed, uncaught, unsubscribed>>
  /\ UNCHANGED <<peerVars, blobVars>>

\* SwarmRelay.disconnect with SharedWorkerTransport.disconnect
Disconnect(c) ==
  /\ lastCall' = [lastCall EXCEPT ![c] = "disconnect"]
  /\ UNCHANGED <<rejected, handed, uncaught, unsubscribed>>
  /\ IF AlreadyDisconnected(c)
     THEN \* return
          UNCHANGED <<hubVars, portVars, adapterVars, relayVars, microtasks, histVars>>
     ELSE
    LET a == handshakeAbort[c]
        p == tport[c]
    IN
    \* handshakeAbort(): clearTimeout(timeout); reject('Connection aborted')
    /\ timer' = IF a # NoPort THEN ClearTimeout(a) ELSE timer
    /\ promise' = IF a # NoPort /\ promise[a] = "pending"
                  THEN [promise EXCEPT ![a] = "aborted"] ELSE promise
    /\ microtasks' = IF a # NoPort /\ promise[a] = "pending"
                     THEN [microtasks EXCEPT ![c] = Append(@, a)] ELSE microtasks
    /\ handshakeAbort' = [handshakeAbort EXCEPT ![c] = NoPort]
    \* port.postMessage({type: '__swarm_disconnect__'}); port.close()
    /\ toHub' = IF p # NoPort THEN [toHub EXCEPT ![p] = Append(@, DisconnectMsg)] ELSE toHub
    /\ closed' = IF p # NoPort THEN [closed EXCEPT ![p] = TRUE] ELSE closed
    /\ toClient' = IF p # NoPort THEN [toClient EXCEPT ![p] = <<>>] ELSE toClient
    \* cleanup(); _state = Disconnected
    /\ tport' = [tport EXCEPT ![c] = NoPort]
    /\ messageHandlers' = [messageHandlers EXCEPT ![c] = FALSE]
    /\ errorHandlers' = [errorHandlers EXCEPT ![c] = FALSE]
    /\ tstate' = [tstate EXCEPT ![c] = Disconnected]
    \* handlers.clear(); wildcardHandlers.clear(); setState(Disconnected)
    /\ handlers' = [handlers EXCEPT ![c] = [e \in Events |-> <<>>]]
    /\ wildcardHandlers' = [wildcardHandlers EXCEPT ![c] = <<>>]
    /\ rstate' = [rstate EXCEPT ![c] = Disconnected]
    /\ UNCHANGED <<ports, hubClientId, nextPort, onmessage, histVars>>
  /\ UNCHANGED <<peerVars, blobVars>>

\* the application called the adapter's disconnect(): the first call, or one
\* that follows another with no connect() in between
AdapterDisconnectCall(c) ==
  IF lastCall[c] \in {"adapter.disconnect", "adapter.disconnect again"}
  THEN "adapter.disconnect again" ELSE "adapter.disconnect"

\* TransportDisconnect that throws when the adapter holds no port
TransportDisconnectStrict(c) ==
  /\ lastCall' = [lastCall EXCEPT ![c] = AdapterDisconnectCall(c)]
  /\ thrown' = IF tport[c] = NoPort THEN NotConnected ELSE "none"
  /\ IF tport[c] = NoPort
     THEN UNCHANGED <<timer, promise, microtasks, handshakeAbort, toHub, closed, toClient,
                      tport, messageHandlers, errorHandlers, tstate>>
     ELSE LET a == handshakeAbort[c]
              p == tport[c]
          IN
          /\ timer' = IF a # NoPort THEN ClearTimeout(a) ELSE timer
          /\ promise' = IF a # NoPort /\ promise[a] = "pending"
                        THEN [promise EXCEPT ![a] = "aborted"] ELSE promise
          /\ microtasks' = IF a # NoPort /\ promise[a] = "pending"
                           THEN [microtasks EXCEPT ![c] = Append(@, a)] ELSE microtasks
          /\ handshakeAbort' = [handshakeAbort EXCEPT ![c] = NoPort]
          /\ toHub' = [toHub EXCEPT ![p] = Append(@, DisconnectMsg)]
          /\ closed' = [closed EXCEPT ![p] = TRUE]
          /\ toClient' = [toClient EXCEPT ![p] = <<>>]
          /\ tport' = [tport EXCEPT ![c] = NoPort]
          /\ messageHandlers' = [messageHandlers EXCEPT ![c] = FALSE]
          /\ errorHandlers' = [errorHandlers EXCEPT ![c] = FALSE]
          /\ tstate' = [tstate EXCEPT ![c] = Disconnected]
  /\ UNCHANGED <<ports, hubClientId, nextPort, onmessage, relayVars, sent, sentVia, invoked,
                 dropped, reported, rejected, handed, uncaught, unsubscribed>>
  /\ UNCHANGED <<peerVars, blobVars>>

\* SharedWorkerTransport.disconnect, called on the adapter itself
TransportDisconnect(c) ==
  /\ lastCall' = [lastCall EXCEPT ![c] = AdapterDisconnectCall(c)]
  /\ thrown' = "none"
  /\ LET a == handshakeAbort[c]
         p == tport[c]
     IN
     \* handshakeAbort(): clearTimeout(timeout); reject('Connection aborted')
     /\ timer' = IF a # NoPort THEN ClearTimeout(a) ELSE timer
     /\ promise' = IF a # NoPort /\ promise[a] = "pending"
                   THEN [promise EXCEPT ![a] = "aborted"] ELSE promise
     /\ microtasks' = IF a # NoPort /\ promise[a] = "pending"
                      THEN [microtasks EXCEPT ![c] = Append(@, a)] ELSE microtasks
     /\ handshakeAbort' = [handshakeAbort EXCEPT ![c] = NoPort]
     \* if (this.port) { port.postMessage({type: '__swarm_disconnect__'}); port.close() }
     /\ toHub' = IF p # NoPort THEN [toHub EXCEPT ![p] = Append(@, DisconnectMsg)] ELSE toHub
     /\ closed' = IF p # NoPort THEN [closed EXCEPT ![p] = TRUE] ELSE closed
     /\ toClient' = IF p # NoPort THEN [toClient EXCEPT ![p] = <<>>] ELSE toClient
     \* cleanup(); _state = Disconnected
     /\ tport' = [tport EXCEPT ![c] = NoPort]
     /\ messageHandlers' = [messageHandlers EXCEPT ![c] = FALSE]
     /\ errorHandlers' = [errorHandlers EXCEPT ![c] = FALSE]
     /\ tstate' = [tstate EXCEPT ![c] = Disconnected]
  /\ UNCHANGED <<ports, hubClientId, nextPort, onmessage, relayVars, sent, sentVia, invoked,
                 dropped, reported, rejected, handed, uncaught, unsubscribed>>
  /\ UNCHANGED <<peerVars, blobVars>>

\* ErrorCode with every rejection coded as a failed connection
ErrorCodeFailed(reason) == ConnectionFailed

\* ErrorCode with every rejection of the handshake coded as a transport error
ErrorCodeTransport(reason) == TransportError

\* the SwarmRelayErrorCode the handshake promise is rejected with
ErrorCode(reason) ==
  IF reason = "workererror" THEN TransportError
  ELSE IF reason = "unsupported" THEN WorkerNotSupported
  ELSE ConnectionFailed

\* OnErrorCallback with the call of the callback left out
OnErrorCallbackMissing(c, code) == reported

\* this.onErrorCallback?.(relayError) in the catch of SwarmRelay.connect
OnErrorCallback(c, code) == [reported EXCEPT ![c] = @ \cup {code}]

\* the microtask in which an awaiting connect() of client c resumes: the code
\* after the await, or the catch of SharedWorkerTransport.connect and then the
\* catch of SwarmRelay.connect
ConnectResumes(c) ==
  /\ microtasks[c] # <<>>
  /\ microtasks' = [microtasks EXCEPT ![c] = Tail(@)]
  /\ LET p == Head(microtasks[c]) IN
     IF p = NoPort
     THEN /\ rstate' = [rstate EXCEPT ![c] = Connected]
          /\ UNCHANGED <<adapterVars, reported, rejected>>
     ELSE IF Len(p) = 1
     THEN \* transport.connect threw before the handshake: the catch of SwarmRelay.connect
          /\ rstate' = [rstate EXCEPT ![c] = Error]
          /\ reported' = OnErrorCallback(c, ErrorCode(p[1]))
          /\ rejected' = [rejected EXCEPT ![c] = @ \cup {ErrorCode(p[1])}]
          /\ UNCHANGED adapterVars
     ELSE /\ tstate' = [tstate EXCEPT ![c] = Error]
          /\ tport' = [tport EXCEPT ![c] = NoPort]
          /\ messageHandlers' = [messageHandlers EXCEPT ![c] = FALSE]
          /\ errorHandlers' = [errorHandlers EXCEPT ![c] = FALSE]
          /\ rstate' = [rstate EXCEPT ![c] = Error]
          /\ reported' = OnErrorCallback(c, ErrorCode(promise[p]))
          /\ rejected' = [rejected EXCEPT ![c] = @ \cup {ErrorCode(promise[p])}]
          /\ UNCHANGED handshakeAbort
  /\ UNCHANGED <<hubVars, portVars, handlers, wildcardHandlers, sent, sentVia, invoked, thrown,
                 dropped, handed, uncaught, lastCall, unsubscribed>>
  /\ UNCHANGED <<peerVars, blobVars>>

\* the application's handler h throws when it is called
Throws(h) == h \in ThrowingHandlers

\* Propagates without the try/catch around the call of the handler
PropagatesUncaught(h) == Throws(h)

\* try { handler(...) } catch (error) { logger.error(...) }: an exception of
\* handler h leaves the statement
Propagates(h) == FALSE

\* for (const handler of hs) { try { handler(...) } catch ... }: the calls made,
\* in the iteration order of the Set, up to an exception that leaves the loop
RECURSIVE Loop(_, _, _)
Loop(hs, kind, m) ==
  IF hs = <<>> THEN <<>>
  ELSE <<[handler |-> Head(hs), kind |-> kind, message |-> m]>>
       \o (IF Propagates(Head(hs)) THEN <<>> ELSE Loop(Tail(hs), kind, m))

\* an exception leaves the loop over hs
Escapes(hs) == \E i \in 1..Len(hs) : Propagates(hs[i])

\* Invocations with the handlers of the event called before the wildcard handlers
InvocationsEventFirst(c, m) ==
  Loop(handlers[c][m.event], "event", m)
  \o (IF Escapes(handlers[c][m.event]) THEN <<>>
      ELSE Loop(wildcardHandlers[c], "wildcard", m))

\* SwarmRelay.handleMessage: every wildcard handler, then every handler of the event
Invocations(c, m) ==
  Loop(wildcardHandlers[c], "wildcard", m)
  \o (IF Escapes(wildcardHandlers[c]) THEN <<>>
      ELSE Loop(handlers[c][m.event], "event", m))

\* an exception leaves SwarmRelay.handleMessage
HandleMessageThrows(c, m) ==
  Escapes(wildcardHandlers[c]) \/ Escapes(handlers[c][m.event])

\* the handlers the application supplied that call disconnect() on their own instance
DisconnectingHandlers == {"hd"}

CallsDisconnect(h) == h \in DisconnectingHandlers

\* a handler in the Set hs calls disconnect()
HasDisconnecting(hs) == \E i \in 1..Len(hs) : CallsDisconnect(hs[i])

\* the loop over a Set that a handler's disconnect() clears (wildcardHandlers.clear()):
\* the iteration ends with the handler that cleared it
RECURSIVE LoopCleared(_, _, _)
LoopCleared(hs, kind, m) ==
  IF hs = <<>> THEN <<>>
  ELSE <<[handler |-> Head(hs), kind |-> kind, message |-> m]>>
       \o (IF CallsDisconnect(Head(hs)) THEN <<>> ELSE LoopCleared(Tail(hs), kind, m))

\* SwarmRelay.handleMessage when a subscribed handler calls disconnect(): a
\* wildcard handler's disconnect() clears the Set being iterated and the Map, so
\* the loop ends and handlers.get(event) finds nothing; a per-event handler's
\* disconnect() clears the Map, not the Set eventHandlers refers to, whose
\* iteration goes on
InvocationsDisconnecting(c, m) ==
  IF HasDisconnecting(wildcardHandlers[c])
  THEN LoopCleared(wildcardHandlers[c], "wildcard", m)
  ELSE Loop(wildcardHandlers[c], "wildcard", m)
       \o Loop(handlers[c][m.event], "event", m)

\* the next message on port p is an envelope whose dispatch calls a handler that
\* calls disconnect() on an instance that is not Disconnected
DispatchDisconnects(p) ==
  /\ toClient[p] # <<>>
  /\ onmessage[p] = "permanent"
  /\ Head(toClient[p]).type = "__swarm_message__"
  /\ messageHandlers[owner(p)]
  /\ rstate[owner(p)] # Disconnected
  /\ \/ HasDisconnecting(wildcardHandlers[owner(p)])
     \/ HasDisconnecting(handlers[owner(p)][Head(toClient[p]).message.event])

\* handlePortMessage of port p hands an envelope to SwarmRelay.handleMessage and
\* one of the handlers called calls this.disconnect()
PortMessageDisconnecting(p) ==
  /\ Opened(p)
  /\ microtasks[owner(p)] = <<>>
  /\ DispatchDisconnects(p)
  /\ LET data == Head(toClient[p])
         c == owner(p)
         a == handshakeAbort[c]
         q == tport[c]
     IN
     /\ invoked' = [invoked EXCEPT ![c] = @ \o InvocationsDisconnecting(c, data.message)]
     /\ uncaught' = (uncaught \/ HandleMessageThrows(c, data.message))
     /\ lastCall' = [lastCall EXCEPT ![c] = "disconnect"]
     \* disconnect(), as in Disconnect(c)
     /\ timer' = IF a # NoPort THEN ClearTimeout(a) ELSE timer
     /\ promise' = IF a # NoPort /\ promise[a] = "pending"
                   THEN [promise EXCEPT ![a] = "aborted"] ELSE promise
     /\ microtasks' = IF a # NoPort /\ promise[a] = "pending"
                      THEN [microtasks EXCEPT ![c] = Append(@, a)] ELSE microtasks
     /\ handshakeAbort' = [handshakeAbort EXCEPT ![c] = NoPort]
     /\ toHub' = IF q # NoPort THEN [toHub EXCEPT ![q] = Append(@, DisconnectMsg)] ELSE toHub
     /\ closed' = IF q # NoPort THEN [closed EXCEPT ![q] = TRUE] ELSE closed
     /\ toClient' = IF q # NoPort
                    THEN [[toClient EXCEPT ![p] = Tail(@)] EXCEPT ![q] = <<>>]
                    ELSE [toClient EXCEPT ![p] = Tail(@)]
     /\ tport' = [tport EXCEPT ![c] = NoPort]
     /\ messageHandlers' = [messageHandlers EXCEPT ![c] = FALSE]
     /\ errorHandlers' = [errorHandlers EXCEPT ![c] = FALSE]
     /\ tstate' = [tstate EXCEPT ![c] = Disconnected]
     /\ handlers' = [handlers EXCEPT ![c] = [e \in Events |-> <<>>]]
     /\ wildcardHandlers' = [wildcardHandlers EXCEPT ![c] = <<>>]
     /\ rstate' = [rstate EXCEPT ![c] = Disconnected]
  /\ UNCHANGED <<ports, hubClientId, nextPort, onmessage, sent, sentVia, thrown, dropped,
                 reported, rejected, handed, unsubscribed>>
  /\ UNCHANGED <<peerVars, blobVars>>

\* the client-side port.onmessage of port p handles the next message from the hub
PortMessage(p) ==
  /\ Opened(p)
  /\ toClient[p] # <<>>
  /\ microtasks[owner(p)] = <<>>
  /\ ~DispatchDisconnects(p)
  /\ LET data == Head(toClient[p])
         c == owner(p)
     IN
     /\ toClient' = [toClient EXCEPT ![p] = Tail(@)]
     /\ IF onmessage[p] = "handshake"
        THEN \* the handler installed by handshake()
             IF data.type = "__swarm_registered__"
             THEN /\ timer' = ClearTimeout(p)
                  /\ handshakeAbort' = [handshakeAbort EXCEPT ![c] = NoPort]
                  /\ IF tport[c] = NoPort
                     THEN \* this.port is null: the assignment throws, resolve() is not reached
                          UNCHANGED <<onmessage, promise, tstate, rstate>>
                     ELSE /\ onmessage' = [onmessage EXCEPT ![tport[c]] = "permanent"]
                          /\ IF promise[p] = "pending"
                             THEN \* resolve(); connect() resumes: both states Connected
                                  /\ promise' = [promise EXCEPT ![p] = "resolved"]
                                  /\ tstate' = [tstate EXCEPT ![c] = Connected]
                                  /\ rstate' = [rstate EXCEPT ![c] = Connected]
                             ELSE UNCHANGED <<promise, tstate, rstate>>
                  /\ UNCHANGED <<invoked, uncaught>>
             ELSE UNCHANGED <<timer, handshakeAbort, onmessage, promise, tstate, rstate,
                              invoked, uncaught>>
        ELSE \* handlePortMessage
             /\ invoked' = IF data.type = "__swarm_message__" /\ messageHandlers[c]
                           THEN [invoked EXCEPT ![c] = @ \o Invocations(c, data.message)]
                           ELSE invoked
             /\ uncaught' = IF data.type = "__swarm_message__" /\ messageHandlers[c]
                            THEN uncaught \/ HandleMessageThrows(c, data.message)
                            ELSE uncaught
             /\ UNCHANGED <<timer, handshakeAbort, onmessage, promise, tstate, rstate>>
  /\ UNCHANGED <<ports, hubClientId, toHub, nextPort, closed, tport,
                 messageHandlers, errorHandlers, handlers, wildcardHandlers,
                 microtasks, sent, sentVia, thrown, dropped, reported, rejected, handed, lastCall, unsubscribed>>
  /\ UNCHANGED <<peerVars, blobVars>>

\* the setTimeout callback of handshake() for attempt p, and the catch blocks it reaches
HandshakeTimeout(p) ==
  /\ timer[p]
  /\ microtasks[owner(p)] = <<>>
  /\ LET c == owner(p) IN
     /\ timer' = [timer EXCEPT ![p] = FALSE]
     /\ handshakeAbort' = [handshakeAbort EXCEPT ![c] = NoPort]
     /\ IF promise[p] = "pending"
        THEN /\ promise' = [promise EXCEPT ![p] = "timeout"]
             /\ tstate' = [tstate EXCEPT ![c] = Error]
             /\ tport' = [tport EXCEPT ![c] = NoPort]
             /\ messageHandlers' = [messageHandlers EXCEPT ![c] = FALSE]
             /\ errorHandlers' = [errorHandlers EXCEPT ![c] = FALSE]
             /\ rstate' = [rstate EXCEPT ![c] = Error]
             /\ reported' = OnErrorCallback(c, ErrorCode("timeout"))
             /\ rejected' = [rejected EXCEPT ![c] = @ \cup {ErrorCode("timeout")}]
        ELSE UNCHANGED <<promise, tstate, tport, messageHandlers, errorHandlers,
                         rstate, reported, rejected>>
  /\ UNCHANGED <<hubVars, nextPort, onmessage, closed, handlers,
                 wildcardHandlers, microtasks, sent, sentVia, invoked, thrown, dropped,
                 handed, uncaught, lastCall, unsubscribed>>
  /\ UNCHANGED <<peerVars, blobVars>>

\* worker.onerror of the SharedWorker object of attempt p, and the catch blocks it reaches
WorkerError(p) ==
  /\ Opened(p)
  /\ microtasks[owner(p)] = <<>>
  /\ LET c == owner(p) IN
     /\ timer' = ClearTimeout(p)
     /\ handshakeAbort' = [handshakeAbort EXCEPT ![c] = NoPort]
     /\ tstate' = [tstate EXCEPT ![c] = Error]
     /\ IF promise[p] = "pending"
        THEN /\ promise' = [promise EXCEPT ![p] = "workererror"]
             /\ tport' = [tport EXCEPT ![c] = NoPort]
             /\ messageHandlers' = [messageHandlers EXCEPT ![c] = FALSE]
             /\ errorHandlers' = [errorHandlers EXCEPT ![c] = FALSE]
             /\ rstate' = [rstate EXCEPT ![c] = Error]
             /\ reported' = OnErrorCallback(c, ErrorCode("workererror"))
             /\ rejected' = [rejected EXCEPT ![c] = @ \cup {ErrorCode("workererror")}]
        ELSE UNCHANGED <<promise, tport, messageHandlers, errorHandlers, rstate,
                         reported, rejected>>
  /\ UNCHANGED <<hubVars, nextPort, onmessage, closed, handlers,
                 wildcardHandlers, microtasks, sent, sentVia, invoked, thrown, dropped,
                 handed, uncaught, lastCall, unsubscribed>>
  /\ UNCHANGED <<peerVars, blobVars>>

\* AssertConnected with the check of the state left out
AssertConnectedMissing(c) == "none"

\* SwarmRelay.assertConnected: what it throws
AssertConnected(c) == IF rstate[c] # Connected THEN NotConnected ELSE "none"

\* SharedWorkerTransport.send: what its own check throws
TransportSendError(c) ==
  IF tstate[c] # Connected \/ tport[c] = NoPort THEN NotConnected ELSE "none"

\* SwarmRelay.assertConnected, then SharedWorkerTransport.send's own check
SendError(c) ==
  IF AssertConnected(c) # "none" THEN AssertConnected(c) ELSE TransportSendError(c)

\* SwarmRelay.send / SwarmRelay.broadcast (target = NoTarget) with SharedWorkerTransport.send
TransmitWithin(limit, c, target, event) ==
  /\ IF AssertConnected(c) # "none"
     THEN \* thrown before the envelope is built
          /\ thrown' = AssertConnected(c)
          /\ handed' = <<>>
          /\ UNCHANGED <<sent, sentVia, toHub>>
     ELSE /\ sent < limit
          /\ sent' = sent + 1
          /\ sentVia' = Append(sentVia, tport[c])
          /\ LET message == SwarmMessage(sent + 1, c, target, event) IN
             \* this.transport.send(message)
             /\ handed' = <<message>>
             /\ thrown' = TransportSendError(c)
             /\ toHub' = IF TransportSendError(c) = "none"
                         THEN [toHub EXCEPT ![tport[c]] = Enqueue(@, DataMsg(message))]
                         ELSE toHub
  /\ UNCHANGED <<ports, hubClientId, toClient, portVars, adapterVars, relayVars,
                 microtasks, invoked, dropped, reported, rejected, uncaught, lastCall, unsubscribed>>
  /\ UNCHANGED <<peerVars, blobVars>>

\* send()/broadcast(), at most MaxSends envelopes in all
Transmit(c, target, event) == TransmitWithin(MaxSends, c, target, event)

Send(c, target, event) == Transmit(c, target, event)

\* send() of a client that sends several envelopes, at most MaxBurst in all
SendBurst(c, target, event) == TransmitWithin(MaxBurst, c, target, event)

Broadcast(c, event) == Transmit(c, NoTarget, event)

\* Set.add on an insertion-ordered set
SetAdd(s, h) == IF \E i \in 1..Len(s) : s[i] = h THEN s ELSE Append(s, h)

\* the name wildcard subscriptions are recorded under
Wildcard == "*"

\* SetDelete that leaves the handler in the Set
SetDeleteMissing(s, h) == s

\* Set.delete
SetDelete(s, h) == SelectSeq(s, LAMBDA x : x # h)

\* handler h is in the Set s
SetHas(s, h) == \E i \in 1..Len(s) : s[i] = h

\* SwarmRelay.on
On(c, event, h) ==
  /\ handlers' = [handlers EXCEPT ![c][event] = SetAdd(@, h)]
  /\ unsubscribed' = [unsubscribed EXCEPT ![c] = @ \ {<<event, h>>}]
  /\ UNCHANGED <<hubVars, portVars, adapterVars, rstate, wildcardHandlers, microtasks, histVars,
                 rejected, handed, uncaught, lastCall>>
  /\ UNCHANGED <<peerVars, blobVars>>

\* SwarmRelay.off, also the cleanup function returned by on
Off(c, event, h) ==
  /\ handlers' = [handlers EXCEPT ![c][event] = SetDelete(@, h)]
  /\ unsubscribed' = [unsubscribed EXCEPT ![c] =
                         IF SetHas(handlers[c][event], h) THEN @ \cup {<<event, h>>} ELSE @]
  /\ UNCHANGED <<hubVars, portVars, adapterVars, rstate, wildcardHandlers, microtasks, histVars,
                 rejected, handed, uncaught, lastCall>>
  /\ UNCHANGED <<peerVars, blobVars>>

\* SwarmRelay.onAny
OnAny(c, h) ==
  /\ wildcardHandlers' = [wildcardHandlers EXCEPT ![c] = SetAdd(@, h)]
  /\ unsubscribed' = [unsubscribed EXCEPT ![c] = @ \ {<<Wildcard, h>>}]
  /\ UNCHANGED <<hubVars, portVars, adapterVars, rstate, handlers, microtasks, histVars,
                 rejected, handed, uncaught, lastCall>>
  /\ UNCHANGED <<peerVars, blobVars>>

\* SwarmRelay.offAny, also the cleanup function returned by onAny
OffAny(c, h) ==
  /\ wildcardHandlers' = [wildcardHandlers EXCEPT ![c] = SetDelete(@, h)]
  /\ unsubscribed' = [unsubscribed EXCEPT ![c] =
                         IF SetHas(wildcardHandlers[c], h) THEN @ \cup {<<Wildcard, h>>} ELSE @]
  /\ UNCHANGED <<hubVars, portVars, adapterVars, rstate, handlers, microtasks, histVars,
                 rejected, handed, uncaught, lastCall>>
  /\ UNCHANGED <<peerVars, blobVars>>

\* OnCleanup that removes every handler of the event
OnCleanupAll(c, event, h) ==
  /\ handlers' = [handlers EXCEPT ![c][event] = <<>>]
  /\ unsubscribed' = [unsubscribed EXCEPT ![c] =
                         @ \cup {<<event, handlers[c][event][i]>> : i \in 1..Len(handlers[c][event])}]
  /\ UNCHANGED <<hubVars, portVars, adapterVars, rstate, wildcardHandlers, microtasks, histVars,
                 rejected, handed, uncaught, lastCall>>
  /\ UNCHANGED <<peerVars, blobVars>>

\* the function on(event, h) returned: () => this.off(event, handler); it
\* exists once on(event, h) has been called
OnCleanup(c, event, h) ==
  /\ SetHas(handlers[c][event], h) \/ <<event, h>> \in unsubscribed[c]
  /\ Off(c, event, h)

\* the function onAny(h) returned: () => this.offAny(handler)
OnAnyCleanup(c, h) ==
  /\ SetHas(wildcardHandlers[c], h) \/ <<Wildcard, h>> \in unsubscribed[c]
  /\ OffAny(c, h)

\* EmitError with the error dropped
EmitErrorSilent(registered, codes) == codes

\* emitError(new SwarmRelayError('Message deserialization error', TransportError)):
\* the codes the error handlers have been given after the call
EmitError(registered, codes) == IF registered THEN codes \cup {TransportError} ELSE codes

\* port.onmessageerror on the client's side of port p: emitError hands a
\* TransportError to every error handler, that is to SwarmRelay.handleError
PortMessageError(p) ==
  /\ Opened(p)
  /\ ~closed[p]
  /\ microtasks[owner(p)] = <<>>
  /\ channelErrors[owner(p)] < MaxErrors
  /\ channelErrors' = [channelErrors EXCEPT ![owner(p)] = @ + 1]
  /\ reported' = [reported EXCEPT ![owner(p)] = EmitError(errorHandlers[owner(p)], @)]
  /\ UNCHANGED <<hubVars, portVars, adapterVars, relayVars, microtasks, sent, sentVia, invoked,
                 thrown, dropped, callVars>>
  /\ UNCHANGED <<bstate, bchannel, bclientId, bmessageHandlers, binbox, surfaced, bthrown,
                 berrorHandlers, breported, blobVars>>

(***************************************************************************)
(* The peer-broadcast adapter (BroadcastChannelTransport): one adapter per  *)
(* ClientId on one channel name; other participants of the channel post to *)
(* it as well.                                                              *)
(***************************************************************************)

\* the ways the environment makes BroadcastChannelTransport.connect fail:
\* BroadcastChannel is undefined, or its constructor throws
PeerEnvironments == {"ok", "unsupported", "construction"}

\* BroadcastChannelTransport.onMessage
PeerOnMessage(c) ==
  /\ bmessageHandlers' = [bmessageHandlers EXCEPT ![c] = TRUE]
  /\ UNCHANGED <<coreVars, blobVars, peerErrVars, bstate, bchannel, bclientId, binbox, surfaced, bthrown>>

\* BroadcastChannelTransport.onError
PeerOnError(c) ==
  /\ berrorHandlers' = [berrorHandlers EXCEPT ![c] = TRUE]
  /\ UNCHANGED <<coreVars, blobVars, breported, channelErrors, bstate, bchannel, bclientId,
                 bmessageHandlers, binbox, surfaced, bthrown>>

\* channel.onmessageerror of the adapter's open channel
PeerMessageError(c) ==
  /\ bchannel[c]
  /\ channelErrors[c] < MaxErrors
  /\ channelErrors' = [channelErrors EXCEPT ![c] = @ + 1]
  /\ breported' = [breported EXCEPT ![c] = EmitError(berrorHandlers[c], @)]
  /\ UNCHANGED <<coreVars, blobVars, berrorHandlers, bstate, bchannel, bclientId,
                 bmessageHandlers, binbox, surfaced, bthrown>>

\* BroadcastChannelTransport.connect
PeerConnect(c, env) ==
  /\ IF bstate[c] = Connected \/ env = "unsupported"
     THEN \* return, or throw WorkerNotSupported before any field is assigned
          UNCHANGED <<bstate, bchannel, bclientId>>
     ELSE /\ bclientId' = [bclientId EXCEPT ![c] = c]
          /\ IF env = "construction"
             THEN \* new BroadcastChannel throws: _state = Error
                  /\ bstate' = [bstate EXCEPT ![c] = Error]
                  /\ UNCHANGED bchannel
             ELSE /\ bchannel' = [bchannel EXCEPT ![c] = TRUE]
                  /\ bstate' = [bstate EXCEPT ![c] = Connected]
  /\ UNCHANGED <<coreVars, blobVars, peerErrVars, bmessageHandlers, binbox, surfaced, bthrown>>

\* BroadcastChannelTransport.disconnect
PeerDisconnect(c) ==
  /\ bthrown' = "none"
  \* if (this.channel) { this.channel.close(); this.channel = null }
  /\ bchannel' = [bchannel EXCEPT ![c] = FALSE]
  /\ binbox' = [binbox EXCEPT ![c] = <<>>]
  /\ bclientId' = [bclientId EXCEPT ![c] = Null]
  /\ bmessageHandlers' = [bmessageHandlers EXCEPT ![c] = FALSE]
  /\ berrorHandlers' = [berrorHandlers EXCEPT ![c] = FALSE]
  /\ bstate' = [bstate EXCEPT ![c] = Disconnected]
  /\ UNCHANGED <<coreVars, blobVars, breported, channelErrors, surfaced>>

\* channel.postMessage(data) by a participant: every open channel object of
\* the name other than the poster's own receives data
PeerPosted(from, data) ==
  [d \in Clients |-> IF d # from /\ bchannel[d] THEN Append(binbox[d], data) ELSE binbox[d]]

\* no open channel has MaxInbox unhandled messages
PeerRoom == \A d \in Clients : Len(binbox[d]) < MaxInbox

\* BroadcastChannelTransport.send(message)
PeerSendEnvelope(c, message) ==
  /\ PeerRoom
  /\ IF bstate[c] # Connected \/ ~bchannel[c]
     THEN /\ bthrown' = NotConnected
          /\ UNCHANGED binbox
     ELSE /\ bthrown' = "none"
          /\ binbox' = PeerPosted(c, DataMsg(message))
  /\ UNCHANGED <<coreVars, blobVars, peerErrVars, bstate, bchannel, bclientId, bmessageHandlers, surfaced>>

\* BroadcastChannelTransport.send; message is an envelope with the adapter's
\* ClientId as its source, as SwarmRelay builds it
PeerSend(c, target, event) == PeerSendEnvelope(c, SwarmMessage(1, c, target, event))

\* a participant of the channel outside the model (another browsing context,
\* under any ClientId) posts an envelope
ForeignPost(source, target, event) ==
  /\ PeerRoom
  /\ binbox' = PeerPosted(Null, DataMsg(SwarmMessage(2, source, target, event)))
  /\ UNCHANGED <<coreVars, blobVars, peerErrVars, bstate, bchannel, bclientId, bmessageHandlers, surfaced, bthrown>>

\* HasTarget with every envelope taken for a broadcast
HasTargetNever(m) == FALSE

\* message.target is truthy (ClientIds are non-empty strings)
HasTarget(m) == m.target # NoTarget

\* PeerFilter without the check of the target
PeerFilterSourceOnly(c, m) == m.source # bclientId[c]

\* BroadcastChannelTransport.handleMessage: the two early returns are not taken
PeerFilter(c, m) ==
  /\ m.source # bclientId[c]
  /\ ~(HasTarget(m) /\ m.target # bclientId[c])

\* BroadcastChannelTransport.handleMessage, the channel.onmessage of adapter c
PeerHandleMessage(c) ==
  /\ bchannel[c]
  /\ binbox[c] # <<>>
  /\ LET data == Head(binbox[c]) IN
     /\ binbox' = [binbox EXCEPT ![c] = Tail(@)]
     /\ surfaced' = [surfaced EXCEPT ![c] =
                        IF /\ data.type = "__swarm_message__"
                           /\ PeerFilter(c, data.message)
                           /\ bmessageHandlers[c]
                        THEN <<data.message>> ELSE <<>>]
  /\ UNCHANGED <<coreVars, blobVars, peerErrVars, bstate, bchannel, bclientId, bmessageHandlers, bthrown>>

\* every operation, handler and callback of the system
Next ==
  \/ \E c \in Clients : Connect(c)
  \/ \E c \in Clients : TransportDisconnect(c)
  \/ \E c \in Clients : PeerOnError(c) \/ PeerMessageError(c)
  \/ \E c \in Clients, t \in Clients, e \in Events : SendBurst(c, t, e)
  \/ ResetSharedBlobUrl
  \/ \E c \in Clients, why \in EnvironmentFailures : ConnectFails(c, why)
  \/ \E p \in Ports : PortMessageError(p)
  \/ \E c \in Clients : Disconnect(c)
  \/ \E c \in Clients : ConnectResumes(c)
  \/ \E c \in Clients, t \in Clients, e \in Events : Send(c, t, e)
  \/ \E c \in Clients, e \in Events : Broadcast(c, e)
  \/ \E c \in Clients, e \in Events, h \in Handlers : On(c, e, h)
  \/ \E c \in Clients, e \in Events, h \in Handlers : Off(c, e, h)
  \/ \E c \in Clients, e \in Events, h \in Handlers : OnCleanup(c, e, h)
  \/ \E c \in Clients, h \in Handlers : OnAnyCleanup(c, h)
  \/ \E c \in Clients, h \in Handlers : OnAny(c, h)
  \/ \E c \in Clients, h \in Handlers : OffAny(c, h)
  \/ \E p \in Ports : PortMessage(p)
  \/ \E p \in Ports : PortMessageDisconnecting(p)
  \/ \E p \in Ports : HandshakeTimeout(p)
  \/ \E p \in Ports : WorkerError(p)
  \/ \E p \in Ports : HubMessage(p)
  \/ \E p \in Ports : HubMessageError(p)
  \/ \E c \in Clients : PeerOnMessage(c)
  \/ \E c \in Clients, env \in PeerEnvironments : PeerConnect(c, env)
  \/ \E c \in Clients : PeerDisconnect(c)
  \/ \E c \in Clients, t \in Clients \cup {NoTarget}, e \in Events : PeerSend(c, t, e)
  \/ \E s \in Clients, t \in Clients \cup {NoTarget}, e \in Events : ForeignPost(s, t, e)
  \/ \E c \in Clients : PeerHandleMessage(c)

Spec == Init /\ [][Next]_vars

(***************************************************************************)
(* The specifications the properties are checked under.  Each has the      *)
(* Init of Spec and a Next made of actions of Next, so each of its         *)
(* behaviours is a behaviour of Spec.                                       *)
(***************************************************************************)

\* SpecLife: one adapter and the hub; the whole connection lifecycle of "a"
NextLife ==
  \/ Connect("a")
  \/ Disconnect("a")
  \/ ConnectResumes("a")
  \/ \E p \in Ports : PortMessage(p)
  \/ \E p \in Ports : HandshakeTimeout(p)
  \/ \E p \in Ports : WorkerError(p)
  \/ \E p \in Ports : HubMessage(p)

SpecLife == Init /\ [][NextLife]_vars

\* SpecReg: the registry under registrations of "a" (which reconnects) and
\* "b" (which connects once), their disconnects and channel errors
NextReg ==
  \/ Connect("a")
  \/ nextPort["b"] = 0 /\ Connect("b")
  \/ \E c \in Clients : Disconnect(c)
  \/ \E c \in Clients : ConnectResumes(c)
  \/ \E p \in Ports : PortMessage(p)
  \/ \E p \in Ports : HubMessage(p)
  \/ \E p \in Ports : HubMessageError(p)

SpecReg == Init /\ [][NextReg]_vars

\* SpecRoute: three clients that each connect once, subscribe and disconnect;
\* "a" is the sender
NextRoute ==
  \/ \E c \in Clients : nextPort[c] = 0 /\ Connect(c)
  \/ \E c \in Clients : Disconnect(c)
  \/ \E c \in Clients : ConnectResumes(c)
  \/ \E t \in Clients : Send("a", t, "e1")
  \/ Broadcast("a", "e1")
  \/ \E c \in Clients : On(c, "e1", "h1")
  \/ \E p \in Ports : PortMessage(p)
  \/ \E p \in Ports : HubMessage(p)

SpecRoute == Init /\ [][NextRoute]_vars

\* SpecFail: the lifecycle of "a" in an environment where SharedWorker may be
\* missing or fail to construct
NextFail ==
  \/ Connect("a")
  \/ \E why \in EnvironmentFailures : ConnectFails("a", why)
  \/ Disconnect("a")
  \/ ConnectResumes("a")
  \/ \E p \in Ports : PortMessage(p)
  \/ \E p \in Ports : HandshakeTimeout(p)
  \/ \E p \in Ports : WorkerError(p)
  \/ \E p \in Ports : HubMessage(p)

SpecFail == Init /\ [][NextFail]_vars

\* SpecSend: "a" sends and broadcasts in every state of its lifecycle; it does
\* not call connect() again while a connect() is in progress
NextSend ==
  \/ rstate["a"] # Connecting /\ Connect("a")
  \/ Disconnect("a")
  \/ ConnectResumes("a")
  \/ \E e \in Events : Send("a", "b", e)
  \/ Broadcast("a", "e1")
  \/ \E p \in Ports : PortMessage(p)
  \/ \E p \in Ports : HandshakeTimeout(p)
  \/ \E p \in Ports : HubMessage(p)

SpecSend == Init /\ [][NextSend]_vars

\* SpecDispatch: "b" subscribes per-event and wildcard handlers, one of which
\* throws, while "a" sends it envelopes of both events; each connects once
NextDispatch ==
  \/ \E c \in {"a", "b"} : rstate[c] = Disconnected /\ Connect(c)
  \/ \E e \in Events : Send("a", "b", e)
  \/ \E e \in Events, h \in Handlers : On("b", e, h)
  \/ \E h \in Handlers : OnAny("b", h)
  \/ \E p \in Ports :
        \/ PortMessage(p)
        \/ HubMessage(p)

SpecDispatch == Init /\ [][NextDispatch]_vars

\* SpecUnsub: "b" subscribes, connects once and disconnects while "a", which
\* connects once, sends it an envelope
NextUnsub ==
  \/ \E c \in {"a", "b"} : rstate[c] = Disconnected /\ nextPort[c] = 0 /\ Connect(c)
  \/ \E c \in {"a", "b"} : ConnectResumes(c)
  \/ Disconnect("b")
  \/ Send("a", "b", "e1")
  \/ \E h \in Handlers : On("b", "e1", h)
  \/ OnAny("b", "h1")
  \/ \E p \in Ports :
        \/ PortMessage(p)
        \/ HubMessage(p)

SpecUnsub == Init /\ [][NextUnsub]_vars

\* SpecOrder: "b" subscribes and connects once; "a" connects, sends "b" up to
\* MaxBurst envelopes, and may disconnect and connect again in between
NextOrder ==
  \/ \E c \in {"a", "b"} : rstate[c] = Disconnected /\ (c = "b" => nextPort[c] = 0) /\ Connect(c)
  \/ Disconnect("a")
  \/ ConnectResumes("a")
  \/ SendBurst("a", "b", "e1")
  \/ rstate["b"] = Disconnected /\ On("b", "e1", "h1")
  \/ \E p \in Ports :
        \/ PortMessage(p)
        \/ HubMessage(p)

SpecOrder == Init /\ [][NextOrder]_vars

\* SpecBlob: "a" connects, disconnects once connected and connects again;
\* awaited connects of "b" may fail before the handshake and "b" opens one
\* port; the reset hook may be called at any time
NextBlob ==
  \/ rstate["a"] = Disconnected /\ Connect("a")
  \/ nextPort["b"] = 0 /\ microtasks["b"] = <<>> /\ Connect("b")
  \/ \E why \in EnvironmentFailures :
        nextPort["b"] = 0 /\ microtasks["b"] = <<>> /\ ConnectFails("b", why)
  \/ rstate["a"] = Connected /\ Disconnect("a")
  \/ \E c \in {"a", "b"} : ConnectResumes(c)
  \/ ResetSharedBlobUrl
  \/ \E p \in Ports :
        \/ PortMessage(p)
        \/ HubMessage(p)

SpecBlob == Init /\ [][NextBlob]_vars

\* SpecAdapters: the relay of "a" connects and the application calls
\* disconnect() on its channel-hub adapter at any time; the peer-broadcast
\* adapter of "b" connects, sends and is disconnected at any time
NextAdapters ==
  \/ rstate["a"] # Connected /\ Connect("a")
  \/ TransportDisconnect("a")
  \/ ConnectResumes("a")
  \/ \E p \in Ports :
        \/ PortMessage(p)
        \/ HubMessage(p)
        \/ HandshakeTimeout(p)
  \/ \E env \in PeerEnvironments : PeerConnect("b", env)
  \/ PeerDisconnect("b")
  \/ PeerSend("b", NoTarget, "e1")

SpecAdapters == Init /\ [][NextAdapters]_vars

\* SpecEarly: "a" subscribes, then calls connect() when Disconnected and again
\* when in Error; "b" connects once and sends "a" an envelope; a handshake
\* timer may fire before the hub has answered
NextEarly ==
  \/ nextPort["a"] = 0 /\ On("a", "e1", "h1")
  \/ nextPort["a"] = 0 /\ OnAny("a", "h1")
  \/ rstate["a"] \in {Disconnected, Error} /\ Connect("a")
  \/ nextPort["b"] = 0 /\ Connect("b")
  \/ Send("b", "a", "e1")
  \/ \E p \in Ports :
        \/ PortMessage(p)
        \/ HubMessage(p)
        \/ owner(p) = "a" /\ HandshakeTimeout(p)

SpecEarly == Init /\ [][NextEarly]_vars

\* SpecFrame: "a" and "b" connect once, "b" disconnects, channel errors reach
\* the hub, and "a" sends to "b", to itself, to the unregistered "c" and to all
NextFrame ==
  \/ \E c \in {"a", "b"} : nextPort[c] = 0 /\ Connect(c)
  \/ rstate["b"] = Connected /\ Disconnect("b")
  \/ \E t \in Clients : Send("a", t, "e1")
  \/ Broadcast("a", "e1")
  \/ \E p \in Ports :
        \/ PortMessage(p)
        \/ HubMessage(p)
        \/ HubMessageError(p)

SpecFrame == Init /\ [][NextFrame]_vars

\* SpecChannelError: the relay of "a" connects over the channel hub, may time
\* out and connect again; the peer-broadcast adapter of "b" gets an error
\* handler, connects and is disconnected; deserialization errors occur on the
\* channels of both
NextChannelError ==
  \/ rstate["a"] \in {Disconnected, Error} /\ Connect("a")
  \/ rstate["a"] = Connected /\ Disconnect("a")
  \/ \E p \in Ports :
        \/ PortMessage(p)
        \/ HubMessage(p)
        \/ HandshakeTimeout(p)
        \/ PortMessageError(p)
  \/ PeerOnError("b")
  \/ \E env \in PeerEnvironments : PeerConnect("b", env)
  \/ PeerDisconnect("b")
  \/ PeerMessageError("b")

SpecChannelError == Init /\ [][NextChannelError]_vars

\* SpecReconnect: "a" and "b" connect, disconnect once Connected and connect
\* again on a new port; no handshake times out and no channel fails
NextReconnect ==
  \/ \E c \in {"a", "b"} : rstate[c] = Disconnected /\ Connect(c)
  \/ \E c \in {"a", "b"} : rstate[c] = Connected /\ Disconnect(c)
  \/ \E p \in Ports :
        \/ PortMessage(p)
        \/ HubMessage(p)

SpecReconnect == Init /\ [][NextReconnect]_vars

\* SpecStale: "a" and "b" each call connect() from Disconnected and disconnect()
\* once Connected; a handshake may time out and the worker may raise an error
NextStale ==
  \/ \E c \in {"a", "b"} : rstate[c] = Disconnected /\ Connect(c)
  \/ \E c \in {"a", "b"} : rstate[c] = Connected /\ Disconnect(c)
  \/ \E p \in Ports :
        \/ PortMessage(p)
        \/ HandshakeTimeout(p)
        \/ WorkerError(p)
        \/ HubMessage(p)

SpecStale == Init /\ [][NextStale]_vars

\* SpecWorker: "a" connects once from Disconnected, sends and broadcasts, and
\* disconnects once Connected; the SharedWorker object may raise an error event
\* at any time after it was constructed
NextWorker ==
  \/ rstate["a"] = Disconnected /\ nextPort["a"] = 0 /\ Connect("a")
  \/ nextPort["b"] = 0 /\ Connect("b")
  \/ rstate["a"] = Connected /\ Disconnect("a")
  \/ \E t \in Clients : Send("a", t, "e1")
  \/ Broadcast("a", "e1")
  \/ \E p \in Ports :
        \/ PortMessage(p)
        \/ WorkerError(p)
        \/ HubMessage(p)

SpecWorker == Init /\ [][NextWorker]_vars

\* SpecSelfDisconnect: "b" connects once and subscribes handlers, one of which
\* calls disconnect() on "b"; "a" connects once and sends "b" an envelope
NextSelfDisconnect ==
  \/ \E c \in {"a", "b"} : nextPort[c] = 0 /\ Connect(c)
  \/ \E h \in {"h1"} \cup DisconnectingHandlers :
        \/ On("b", "e1", h)
        \/ OnAny("b", h)
  \/ Send("a", "b", "e1")
  \/ \E p \in Ports :
        \/ PortMessage(p)
        \/ PortMessageDisconnecting(p)
        \/ HubMessage(p)

SpecSelfDisconnect == Init /\ [][NextSelfDisconnect]_vars

\* the hub has handled every message posted to it and the clients every answer
Idle == \A p \in Ports : toHub[p] = <<>> /\ toClient[p] = <<>>

\* client c is Connected to the hub on a registered port and to the broadcast
\* channel, and surfaces what either transport delivers
ReadyOnBoth(c) ==
  /\ rstate[c] = Connected /\ tstate[c] = Connected
  /\ tport[c] # NoPort /\ ports[c] = tport[c]
  /\ wildcardHandlers[c] # <<>>
  /\ bstate[c] = Connected /\ bchannel[c] /\ bmessageHandlers[c]

\* client c has not used either transport
Absent(c) ==
  /\ nextPort[c] = 0 /\ wildcardHandlers[c] = <<>>
  /\ bstate[c] = Disconnected /\ ~bmessageHandlers[c]

\* SpecSwap: the clients connect to the hub and to the broadcast channel and
\* subscribe; once each of them is Connected on both (or has stayed away), "a"
\* sends one envelope through the hub and, when the hub has delivered it,
\* the same envelope through the broadcast channel
NextSwap ==
  \/ \E c \in Clients : sent = 0 /\ nextPort[c] = 0 /\ Connect(c)
  \/ \E c \in Clients : sent = 0 /\ wildcardHandlers[c] = <<>> /\ OnAny(c, "h1")
  \/ \E c \in Clients : sent = 0 /\ bstate[c] = Disconnected /\ PeerConnect(c, "ok")
  \/ \E c \in Clients : sent = 0 /\ ~bmessageHandlers[c] /\ PeerOnMessage(c)
  \/ /\ sent = 0
     /\ ReadyOnBoth("a")
     /\ \A c \in Clients : ReadyOnBoth(c) \/ Absent(c)
     /\ \/ \E t \in Clients : Send("a", t, "e1")
        \/ Broadcast("a", "e1")
  \/ \E p \in Ports : PortMessage(p) \/ HubMessage(p)
  \/ handed # <<>> /\ Idle /\ PeerSendEnvelope("a", handed[1])
  \/ \E c \in Clients : PeerHandleMessage(c)

SpecSwap == Init /\ [][NextSwap]_vars

\* SpecTwice: "a" calls connect() any number of times, "b" once, and neither
\* calls disconnect()
NextTwice ==
  \/ Connect("a")
  \/ nextPort["b"] = 0 /\ Connect("b")
  \/ \E p \in Ports :
        \/ PortMessage(p)
        \/ HubMessage(p)
        \/ HandshakeTimeout(p)

SpecTwice == Init /\ [][NextTwice]_vars

\* SpecOff: "b" subscribes and unsubscribes per-event and wildcard handlers
\* while "a" sends it envelopes; each connects once
NextOff ==
  \/ \E c \in {"a", "b"} : rstate[c] = Disconnected /\ Connect(c)
  \/ Send("a", "b", "e1")
  \/ \E h \in Handlers : On("b", "e1", h)
  \/ \E h \in Handlers : Off("b", "e1", h)
  \/ \E h \in Handlers : OnAny("b", h)
  \/ \E h \in Handlers : OffAny("b", h)
  \/ \E p \in Ports :
        \/ PortMessage(p)
        \/ HubMessage(p)

SpecOff == Init /\ [][NextOff]_vars

\* SpecCleanup: "b" subscribes handlers and removes them only through the
\* functions on() and onAny() returned
NextCleanup ==
  \/ \E e \in Events, h \in Handlers : On("b", e, h)
  \/ \E e \in Events, h \in Handlers : OnCleanup("b", e, h)
  \/ \E h \in Handlers : OnAny("b", h)
  \/ \E h \in Handlers : OnAnyCleanup("b", h)

SpecCleanup == Init /\ [][NextCleanup]_vars

\* SpecPeer: the peer-broadcast adapters of "a" and "b" on one channel, with
\* envelopes of every source and target posted by other participants
NextPeer ==
  \/ \E c \in {"a", "b"} : PeerOnMessage(c)
  \/ \E c \in {"a", "b"}, env \in PeerEnvironments : PeerConnect(c, env)
  \/ \E c \in {"a", "b"} : PeerDisconnect(c)
  \/ \E t \in Clients \cup {NoTarget} : PeerSend("b", t, "e1")
  \/ \E s \in Clients, t \in Clients \cup {NoTarget} : ForeignPost(s, t, "e1")
  \/ \E c \in {"a", "b"} : PeerHandleMessage(c)

SpecPeer == Init /\ [][NextPeer]_vars

\* the hub has answered the registration of attempt p and the client has
\* handled the answer
Answered(p) == Opened(p) /\ toHub[p] = <<>> /\ toClient[p] = <<>>

\* SpecRecover: "a" and "b" call connect() when Disconnected and again when in
\* Error; the first handshake of each may time out before the hub answers,
\* later handshakes are answered in time, so that a later timer fires only if
\* the answer did not clear it
NextRecover ==
  \/ \E c \in {"a", "b"} : rstate[c] \in {Disconnected, Error} /\ Connect(c)
  \/ \E p \in Ports : (p[2] = 1 \/ Answered(p)) /\ HandshakeTimeout(p)
  \/ \E p \in Ports : PortMessage(p)
  \/ \E p \in Ports : HubMessage(p)

\* the application calls connect() again on an instance in Error; the hub and
\* the client's event loop handle every message posted to them
FairRecover ==
  /\ \A c \in {"a", "b"} : WF_vars(rstate[c] = Error /\ Connect(c))
  /\ \A p \in Ports : WF_vars(PortMessage(p)) /\ WF_vars(HubMessage(p))

SpecRecover == Init /\ [][NextRecover]_vars /\ FairRecover

\* ====================================================================
\* Properties
\* ====================================================================

\* the step is the hub handling the next message of port p
HubHandles(p) == toHub[p] # <<>> /\ toHub'[p] = Tail(toHub[p])

\* the step is the client-side onmessage of port q handling its next message
PortHandles(q) == toClient[q] # <<>> /\ toClient'[q] = Tail(toClient[q]) /\ ~closed'[q]

\* ClientId id is a key of the Registry
Registered(id) == ports[id] # NoPort

\* toClient after posting msg to exactly the open ports of qs
PostedTo(qs, msg) ==
  [q \in Ports |-> IF q \in qs /\ ~closed[q] THEN Append(toClient[q], msg) ELSE toClient[q]]

\* the entries invoked'[x] has beyond invoked[x]
NewInvocations(x) == SubSeq(invoked'[x], Len(invoked[x]) + 1, Len(invoked'[x]))

\* C1: a targeted envelope from a registered A to a registered B # A is posted
\* unchanged to the port registered under B and to no other port; when B's
\* port hands it to the relay every handler B subscribed to its event is
\* invoked with it; and no handler of any other client is ever invoked for a
\* targeted envelope.
C1_TargetedReachesOnlyTarget ==
  [][ /\ \A p \in Ports :
           (HubHandles(p) /\ Head(toHub[p]).type = "__swarm_message__") =>
             LET m == Head(toHub[p]).message IN
             (m.target # NoTarget /\ m.target # m.source
                /\ Registered(m.source) /\ Registered(m.target)) =>
               toClient' = PostedTo({ports[m.target]}, DataMsg(m))
      /\ \A q \in Ports :
           (PortHandles(q) /\ Head(toClient[q]).type = "__swarm_message__"
              /\ onmessage[q] = "permanent" /\ messageHandlers[owner(q)]) =>
             LET m == Head(toClient[q]).message
                 hs == handlers[owner(q)][m.event]
             IN \A i \in 1..Len(hs) :
                  \E j \in 1..Len(NewInvocations(owner(q))) :
                     /\ NewInvocations(owner(q))[j].handler = hs[i]
                     /\ NewInvocations(owner(q))[j].message = m
      /\ \A x \in Clients : \A j \in 1..Len(invoked'[x]) :
           invoked'[x][j].message.target \in {NoTarget, x}
    ]_vars

\* C1 witness: with "a", "b" and "c" registered and subscribed, b's handler has
\* run for an envelope "a" sent to "b", and no handler of "a" or "c" has run
C1_Witness ==
  /\ \A x \in Clients : Registered(x) /\ handlers[x]["e1"] # <<>>
  /\ \E j \in 1..Len(invoked["b"]) :
        /\ invoked["b"][j].message.source = "a"
        /\ invoked["b"][j].message.target = "b"
  /\ invoked["a"] = <<>> /\ invoked["c"] = <<>>

\* C2: a broadcast from a registered A is posted to the port of every other
\* ClientId in the Registry and to no port registered under A; no client's
\* handler is ever invoked for a broadcast of its own.
C2_BroadcastReachesAllButSender ==
  [][ /\ \A p \in Ports :
           (HubHandles(p) /\ Head(toHub[p]).type = "__swarm_message__") =>
             LET m == Head(toHub[p]).message IN
             (m.target = NoTarget /\ Registered(m.source)) =>
               /\ toClient' = PostedTo({ports[id] : id \in {i \in Clients :
                                          Registered(i) /\ i # m.source}}, DataMsg(m))
               /\ toClient'[ports[m.source]] = toClient[ports[m.source]]
      /\ \A x \in Clients : \A j \in 1..Len(invoked'[x]) :
           invoked'[x][j].message.target = NoTarget =>
              invoked'[x][j].message.source # x
    ]_vars

\* C2 witness: "a" is registered and subscribed, and the handlers of both "b"
\* and "c" have run for a broadcast of "a" while none of a's has
C2_Witness ==
  /\ Registered("a") /\ handlers["a"]["e1"] # <<>>
  /\ \A x \in {"b", "c"} : \E j \in 1..Len(invoked[x]) :
        /\ invoked[x][j].message.source = "a"
        /\ invoked[x][j].message.target = NoTarget
  /\ invoked["a"] = <<>>

\* C3: a targeted envelope whose target is not in the Registry is dropped by
\* the hub: nothing is posted to any port, the Registry is unchanged, nothing
\* is reported to any client, no handler ever runs for it, and the send() that
\* constructed it did not throw.
C3_UnknownTargetDropped ==
  [][ /\ \A p \in Ports :
           (HubHandles(p) /\ Head(toHub[p]).type = "__swarm_message__") =>
             LET m == Head(toHub[p]).message IN
             (m.target # NoTarget /\ ~Registered(m.target)) =>
               /\ toClient' = toClient
               /\ ports' = ports
               /\ reported' = reported
               /\ invoked' = invoked
      /\ \A x \in Clients : \A j \in 1..Len(invoked'[x]) :
           invoked'[x][j].message.id \notin dropped'
      /\ \A q \in Ports : \A j \in 1..Len(toClient'[q]) :
           toClient'[q][j].type = "__swarm_message__" =>
              toClient'[q][j].message.id \notin dropped'
      /\ (sent' # sent) => thrown' = "none"
    ]_vars

\* C3 witness: "a" sent to "c", which is not registered, while "a" and "b" are
\* registered and subscribed; the envelope was dropped, send() threw nothing and
\* nothing was reported and no handler ran
C3_Witness ==
  /\ dropped # {} /\ thrown = "none"
  /\ ~Registered("c")
  /\ \A x \in {"a", "b"} : Registered(x) /\ handlers[x]["e1"] # <<>>
  /\ \A x \in Clients : invoked[x] = <<>> /\ reported[x] = {}

\* the step is the hub unregistering port p: a disconnect message of p handled,
\* or the hub-side onmessageerror of p
HubUnregisters(p) ==
  \/ HubHandles(p) /\ Head(toHub[p]).type = "__swarm_disconnect__"
  \/ hubClientId[p] # Null /\ hubClientId'[p] = Null

\* C4 (as claimed): when the hub handles a disconnect message or a channel
\* error of endpoint E it removes the entry whose endpoint is E and leaves every
\* entry that maps to another endpoint unchanged.
C4_UnregisterRemovesOnlyOwnEntry ==
  [][ \A p \in Ports : HubUnregisters(p) =>
        ports' = [id \in Clients |-> IF ports[id] = p THEN NoPort ELSE ports[id]]
    ]_vars

\* C5: handling register(E, c) leaves the Registry mapping c to E whatever c
\* mapped to before, leaves every other key unchanged, changes no other hub
\* state than E's cached id, and posts one `registered` message carrying c to E
\* and nothing to any other port.
C5_RegisterOverwritesAndAcks ==
  [][ \A p \in Ports :
        (HubHandles(p) /\ Head(toHub[p]).type = "__swarm_register__") =>
          LET c == Head(toHub[p]).clientId IN
          /\ ports'[c] = p
          /\ \A id \in Clients \ {c} : ports'[id] = ports[id]
          /\ toClient' = PostedTo({p}, RegisteredMsg(c))
          /\ dropped' = dropped /\ reported' = reported
    ]_vars

\* C5 witness: the second port of "a" has replaced its first port, which had
\* been registered, under the key "a", while "b" stays registered with its port
C5_Witness ==
  /\ ports["a"] = <<"a", 2>>
  /\ hubClientId[<<"a", 1>>] = "a"
  /\ ports["b"] = <<"b", 1>>
  /\ toClient[<<"a", 2>>] = <<RegisteredMsg("a")>>

\* the step is a disconnect() of client c that is not a no-op
Disconnects(c) == rstate[c] # Disconnected /\ rstate'[c] = Disconnected

\* C6 (as claimed): disconnect() leaves the relay Disconnected, and a
\* Disconnected relay changes state only by entering Connecting in connect().
C6_DisconnectedUntilConnect ==
  [][ \A c \in Clients :
        (rstate[c] = Disconnected /\ rstate'[c] # Disconnected) => rstate'[c] = Connecting
    ]_vars

\* the transitions of ConnectionState the state machine allows
Allowed(s, t) ==
  \/ t = Disconnected
  \/ <<s, t>> \in { <<Disconnected, Connecting>>, <<Connecting, Connected>>,
                    <<Connecting, Error>>, <<Connected, Error>>, <<Error, Connecting>> }

\* C7 (as claimed): every change of a relay's state is an allowed transition.
C7_OnlyAllowedTransitions ==
  [][ \A c \in Clients : rstate'[c] # rstate[c] => Allowed(rstate[c], rstate'[c]) ]_vars

\* C8 (as claimed): a disconnect() rejects every handshake of the adapter that
\* is outstanding with 'Connection aborted' in that very step and cancels its
\* timer, and the timer of an aborted handshake is never scheduled.
C8_DisconnectAbortsHandshake ==
  [][ \A c \in Clients : \A p \in Ports :
        /\ (Disconnects(c) /\ owner(p) = c /\ promise[p] = "pending") =>
              (promise'[p] = "aborted" /\ ~timer'[p])
        /\ promise'[p] = "aborted" => ~timer'[p]
    ]_vars

\* C9: an adapter or its relay becomes Connected only in the step in which the
\* handshake handler of one of its ports receives the `registered`
\* acknowledgment carrying its ClientId, after the hub has consumed the
\* `register` of that port; that step resolves the pending handshake and
\* cancels its timer; whoever is Connected has had a handshake resolved.
C9_ConnectedOnlyAfterAck ==
  [][ \A c \in Clients :
        /\ (\/ rstate'[c] = Connected /\ rstate[c] # Connected
            \/ tstate'[c] = Connected /\ tstate[c] # Connected) =>
              \E p \in Ports :
                 /\ owner(p) = c /\ PortHandles(p)
                 /\ Head(toClient[p]) = RegisteredMsg(c)
                 /\ \A i \in 1..Len(toHub[p]) : toHub[p][i].type # "__swarm_register__"
                 /\ promise[p] = "pending" /\ promise'[p] = "resolved"
        /\ \A p \in Ports :
              (PortHandles(p) /\ owner(p) = c /\ onmessage[p] = "handshake"
                 /\ Head(toClient[p]).type = "__swarm_registered__") => ~timer'[p]
        /\ (rstate'[c] = Connected \/ tstate'[c] = Connected) =>
              \E p \in Ports : owner(p) = c /\ promise'[p] = "resolved"
    ]_vars

\* C9 witness: "a" is Connected on its first port after the hub registered it
\* and the acknowledgment was received, the timer cancelled
C9_Witness ==
  /\ rstate["a"] = Connected /\ tstate["a"] = Connected
  /\ promise[<<"a", 1>>] = "resolved" /\ ~timer[<<"a", 1>>]
  /\ ports["a"] = <<"a", 1>> /\ toClient[<<"a", 1>>] = <<>>

\* C10: when the timer of a handshake fires while the handshake is pending,
\* connect() fails with ConnectionFailed, which is handed to onError, and the
\* states of the adapter and of the relay become Error.
C10_TimeoutFailsConnect ==
  [][ \A p \in Ports :
        (timer[p] /\ promise[p] = "pending" /\ promise'[p] = "timeout") =>
           /\ ErrorCode(promise'[p]) = ConnectionFailed
           /\ reported'[owner(p)] = reported[owner(p)] \cup {ConnectionFailed}
           /\ rstate'[owner(p)] = Error
           /\ tstate'[owner(p)] = Error
    ]_vars

\* C10 witness: the first handshake of "a" timed out while its acknowledgment
\* had not arrived; "a" is in Error and ConnectionFailed was reported
C10_Witness ==
  /\ promise[<<"a", 1>>] = "timeout"
  /\ toHub[<<"a", 1>>] = <<RegisterMsg("a")>>
  /\ rstate["a"] = Error /\ tstate["a"] = Error
  /\ reported["a"] = {ConnectionFailed}

\* C11: when the SharedWorker reports an error while a handshake is pending,
\* connect() rejects with TransportError, which is also handed to onError, the
\* states of the adapter and of the relay become Error, and the timer of that
\* handshake is cancelled and is never scheduled afterwards.
C11_WorkerErrorFailsConnect ==
  [][ \A p \in Ports :
        /\ (promise[p] = "pending" /\ promise'[p] = "workererror") =>
              /\ rejected'[owner(p)] = rejected[owner(p)] \cup {TransportError}
              /\ reported'[owner(p)] = reported[owner(p)] \cup {TransportError}
              /\ rstate'[owner(p)] = Error
              /\ tstate'[owner(p)] = Error
              /\ ~timer'[p]
        /\ promise[p] = "workererror" => (~timer[p] /\ ~timer'[p])
    ]_vars

\* C11 witness: the worker of the first attempt of "a" reported an error while
\* the handshake was pending; connect() rejected with TransportError, "a" is in
\* Error and the timer is cancelled
C11_Witness ==
  /\ promise[<<"a", 1>>] = "workererror"
  /\ rejected["a"] = {TransportError} /\ reported["a"] = {TransportError}
  /\ rstate["a"] = Error /\ tstate["a"] = Error
  /\ ~timer[<<"a", 1>>]

\* the step handles the failure of a connect() call of client c whose cause is
\* `why`: the catch of SwarmRelay.connect runs
ConnectFailure(c, why) ==
  \/ /\ microtasks[c] # <<>> /\ microtasks'[c] = Tail(microtasks[c])
     /\ Head(microtasks[c]) # NoPort
     /\ why = IF Len(Head(microtasks[c])) = 1 THEN Head(microtasks[c])[1]
              ELSE promise[Head(microtasks[c])]
  \/ \E p \in Ports : /\ owner(p) = c /\ promise[p] = "pending"
                       /\ promise'[p] = why /\ why \in {"timeout", "workererror"}

\* the error code each cause of a failed connect() is to surface with
CodeOf(why) ==
  IF why = "workererror" THEN TransportError
  ELSE IF why = "unsupported" THEN WorkerNotSupported
  ELSE ConnectionFailed

\* C12: whenever a connect() call fails (the handshake timed out or was
\* rejected, SharedWorker is missing or its construction threw), the call
\* rejects with the error, the same error is handed to onError, and the state
\* of the relay is Error; connect() never rejects without onError being called.
C12_FailureRejectsAndReports ==
  [][ \A c \in Clients :
        /\ \A why \in {"timeout", "aborted", "workererror", "unsupported", "construction"} :
              ConnectFailure(c, why) =>
                 /\ CodeOf(why) \in rejected'[c]
                 /\ CodeOf(why) \in reported'[c]
                 /\ rstate'[c] = Error
        /\ rejected'[c] # rejected[c] =>
              (rejected'[c] \ rejected[c] \subseteq reported'[c] /\ rstate'[c] = Error)
        /\ rejected'[c] \subseteq reported'[c]
    ]_vars

\* C12 witness: connect() calls of "a" have failed for each kind of reason, a
\* missing SharedWorker, a worker error and a timeout or failed construction;
\* each was rejected and reported, and "a" is in Error
C12_Witness ==
  /\ rejected["a"] = {WorkerNotSupported, TransportError, ConnectionFailed}
  /\ reported["a"] = rejected["a"]
  /\ rstate["a"] = Error
  /\ microtasks["a"] = <<>>

\* C13: a send() or broadcast() called while the relay is not Connected throws
\* NotConnected, passes no envelope to transport.send, posts nothing, builds no
\* envelope and leaves the states of the relay and of the adapter unchanged.
C13_SendWhileNotConnectedThrows ==
  [][ \A c \in Clients, t \in Clients \cup {NoTarget}, e \in Events :
        (Transmit(c, t, e) /\ rstate[c] # Connected) =>
           /\ thrown' = NotConnected
           /\ handed' = <<>>
           /\ toHub' = toHub
           /\ sent' = sent
           /\ rstate' = rstate /\ tstate' = tstate
    ]_vars

\* C13 witness: "a" called send() or broadcast() after its connect() had
\* failed; the call threw NotConnected and no envelope was built or passed on
C13_Witness ==
  /\ rstate["a"] = Error
  /\ thrown = NotConnected /\ handed = <<>> /\ sent = 0
  /\ \A p \in Ports : \A i \in 1..Len(toHub[p]) : toHub[p][i].type # "__swarm_message__"

\* C14: on a Connected relay send(target, event, payload) passes exactly one
\* envelope to transport.send, with source the relay's ClientId and the target,
\* event and payload given; broadcast(event, payload) passes exactly one with
\* source the relay's ClientId and no target; a Connected adapter posts exactly
\* that envelope on its port.
C14_SendHandsOneEnvelope ==
  [][ \A c \in Clients, e \in Events :
        /\ \A t \in Clients :
              (Send(c, t, e) /\ rstate[c] = Connected) =>
                 /\ handed' = << [id |-> sent', source |-> c, target |-> t,
                                   event |-> e, payload |-> "payload"] >>
                 /\ sent' = sent + 1
        /\ (Broadcast(c, e) /\ rstate[c] = Connected) =>
              /\ handed' = << [id |-> sent', source |-> c, target |-> NoTarget,
                                event |-> e, payload |-> "payload"] >>
              /\ sent' = sent + 1
        /\ (rstate[c] = Connected /\ tstate[c] = Connected /\ sent' # sent
               /\ handed'[1].source = c) =>
              toHub' = [toHub EXCEPT ![tport[c]] = Append(@, DataMsg(handed'[1]))]
    ]_vars

\* C14 witness: the Connected "a" sent event e2 to "b"; the envelope passed to
\* the transport has source "a" and target "b" and is the one posted on a's port
C14_Witness ==
  /\ rstate["a"] = Connected /\ thrown = "none" /\ sent = 1
  /\ handed = << [id |-> 1, source |-> "a", target |-> "b", event |-> "e2",
                   payload |-> "payload"] >>
  /\ toHub[<<"a", 1>>] = <<DataMsg(handed[1])>>

\* port q hands the envelope at the head of its queue to SwarmRelay.handleMessage
Delivers(q) ==
  /\ PortHandles(q)
  /\ Head(toClient[q]).type = "__swarm_message__"
  /\ onmessage[q] = "permanent"
  /\ messageHandlers[owner(q)]

\* C15: when an inbound envelope is dispatched and a handler throws, every
\* wildcard handler and every handler subscribed to the envelope's event is
\* still invoked for that envelope, no exception leaves the dispatch, and the
\* subscription table and the wildcard set are unchanged.
C15_ThrowingHandlerIsolated ==
  [][ \A q \in Ports :
        Delivers(q) =>
          LET c == owner(q)
              m == Head(toClient[q]).message
              ws == wildcardHandlers[c]
              hs == handlers[c][m.event]
              n == NewInvocations(c)
          IN ((\E i \in 1..Len(ws) : Throws(ws[i])) \/ (\E i \in 1..Len(hs) : Throws(hs[i]))) =>
               /\ \A i \in 1..Len(ws) :
                     \E j \in 1..Len(n) :
                        n[j] = [handler |-> ws[i], kind |-> "wildcard", message |-> m]
               /\ \A i \in 1..Len(hs) :
                     \E j \in 1..Len(n) :
                        n[j] = [handler |-> hs[i], kind |-> "event", message |-> m]
               /\ ~uncaught'
               /\ handlers' = handlers
               /\ wildcardHandlers' = wildcardHandlers
    ]_vars

\* C15 witness: for one envelope "b" received, the throwing handler h2 ran as a
\* wildcard handler and as a handler of the event, and h1 ran after each of them
C15_Witness ==
  /\ ~uncaught
  /\ \E j \in 1..Len(invoked["b"]) :
        /\ j + 3 <= Len(invoked["b"])
        /\ invoked["b"][j].handler = "h2" /\ invoked["b"][j].kind = "wildcard"
        /\ invoked["b"][j + 1].handler = "h1" /\ invoked["b"][j + 1].kind = "wildcard"
        /\ invoked["b"][j + 2].handler = "h2" /\ invoked["b"][j + 2].kind = "event"
        /\ invoked["b"][j + 3].handler = "h1" /\ invoked["b"][j + 3].kind = "event"
        /\ \A k \in 1..3 : invoked["b"][j + k].message = invoked["b"][j].message

\* C16: for every inbound envelope the handlers invoked are exactly the
\* wildcard handlers, in subscription order, followed by the handlers
\* subscribed to the envelope's event, in subscription order; a handler
\* subscribed only to another event is not invoked.
C16_WildcardThenEventInOrder ==
  [][ \A q \in Ports :
        Delivers(q) =>
          LET c == owner(q)
              m == Head(toClient[q]).message
              ws == wildcardHandlers[c]
              hs == handlers[c][m.event]
              n == NewInvocations(c)
          IN /\ Len(n) = Len(ws) + Len(hs)
             /\ \A i \in 1..Len(ws) :
                   n[i] = [handler |-> ws[i], kind |-> "wildcard", message |-> m]
             /\ \A i \in 1..Len(hs) :
                   n[Len(ws) + i] = [handler |-> hs[i], kind |-> "event", message |-> m]
    ]_vars

\* C16 witness: "b", with h2 then h1 as wildcard handlers, h1 subscribed to e1
\* and h2 only to e2, received one envelope of e1: h2, h1, then h1 ran
C16_Witness ==
  /\ wildcardHandlers["b"] = <<"h2", "h1">>
  /\ handlers["b"]["e1"] = <<"h1">>
  /\ handlers["b"]["e2"] = <<"h2">>
  /\ Len(invoked["b"]) = 3
  /\ invoked["b"][1].handler = "h2" /\ invoked["b"][1].kind = "wildcard"
  /\ invoked["b"][2].handler = "h1" /\ invoked["b"][2].kind = "wildcard"
  /\ invoked["b"][3].handler = "h1" /\ invoked["b"][3].kind = "event"
  /\ \A j \in 1..3 : invoked["b"][j].message.event = "e1"

\* C17: once the application has called disconnect() on an instance, and until
\* it calls connect() on it again, no handler of that instance is invoked,
\* whatever was subscribed before the call and whatever the hub still routes
\* to it.
C17_NoInvocationAfterDisconnect ==
  [][ \A c \in Clients :
        lastCall[c] = "disconnect" => invoked'[c] = invoked[c]
    ]_vars

\* C17 witness: disconnect() has closed the port of "b" while an envelope "a"
\* sent to "b" is still on its way through the hub, which has "b" registered;
\* no handler of "b" has run
C17_Witness ==
  /\ lastCall["b"] = "disconnect"
  /\ closed[<<"b", 1>>]
  /\ Registered("b")
  /\ \E p \in Ports :
        /\ owner(p) = "a"
        /\ toHub[p] # <<>>
        /\ Head(toHub[p]).type = "__swarm_message__"
        /\ Head(toHub[p]).message.target = "b"
  /\ invoked["b"] = <<>>

\* the instance holds a per-event or a wildcard subscription
Subscribed(c) ==
  \/ wildcardHandlers[c] # <<>>
  \/ \E e \in Events : handlers[c][e] # <<>>

\* C18: after any call of disconnect(), whatever the state of the instance was
\* when it was called, its subscription table and its wildcard set are empty.
C18_DisconnectClearsAll ==
  [][ \A c \in Clients :
        (lastCall[c] # "disconnect" /\ lastCall'[c] = "disconnect") => ~Subscribed(c)'
    ]_vars

\* C19: in every reachable state in which an instance holds a per-event or a
\* wildcard subscription, the state of the instance is Connected.
C19_SubscribedOnlyWhileConnected ==
  \A c \in Clients : Subscribed(c) => rstate[c] = Connected

\* C20: with connect() called repeatedly and disconnect() never, an instance
\* that has gone Disconnected -> Connecting -> Connected stays Connected once
\* the hub has answered every handshake; a connect() that finds it Connected
\* changes nothing and does not reach the transport.
C20_ConnectTwiceConnectsOnce ==
  [][ /\ \A c \in Clients :
           (rstate[c] = Connected /\ lastCall'[c] # lastCall[c]) =>
             UNCHANGED <<hubVars, portVars, adapterVars, relayVars, microtasks>>
      /\ \A c \in Clients :
           (rstate[c] = Connected /\ Idle) => rstate'[c] = Connected
    ]_vars

\* C21: a disconnect() called while the instance is Disconnected changes
\* nothing: the transport is not touched (no message posted, no port closed,
\* adapter fields unchanged), the state stays Disconnected and no
\* subscription is removed.
C21_DisconnectWhileDisconnectedNoOp ==
  [][ \A c \in Clients :
        (Disconnect(c) /\ rstate[c] = Disconnected) =>
          /\ rstate'[c] = Disconnected
          /\ UNCHANGED <<hubVars, portVars, adapterVars, relayVars, microtasks, histVars>>
    ]_vars

\* C21 witness: disconnect() was called on "b", which had subscribed and was
\* never connected: it is Disconnected and still holds its subscription
C21_Witness ==
  /\ lastCall["b"] = "disconnect"
  /\ nextPort["b"] = 0
  /\ rstate["b"] = Disconnected
  /\ handlers["b"]["e1"] # <<>>

\* C22: a handler h removed by off(event, h) after on(event, h), and not
\* subscribed again, is not invoked as a handler of that event by any later
\* inbound envelope; likewise a handler removed by offAny(h) after onAny(h)
\* is not invoked as a wildcard handler.
C22_UnsubscribedNeverInvoked ==
  [][ \A c \in Clients :
        \A j \in 1..Len(NewInvocations(c)) :
           LET n == NewInvocations(c)[j] IN
           /\ n.kind = "event" => <<n.message.event, n.handler>> \notin unsubscribed[c]
           /\ n.kind = "wildcard" => <<Wildcard, n.handler>> \notin unsubscribed[c]
    ]_vars

\* C22 witness: "b" removed h2 from e1 and as a wildcard handler, kept h1 for
\* both, and then received an envelope of e1: only h1 ran, twice
C22_Witness ==
  /\ unsubscribed["b"] = {<<"e1", "h2">>, <<Wildcard, "h2">>}
  /\ Len(invoked["b"]) = 2
  /\ invoked["b"][1].handler = "h1" /\ invoked["b"][1].kind = "wildcard"
  /\ invoked["b"][2].handler = "h1" /\ invoked["b"][2].kind = "event"
  /\ invoked["b"][2].message.event = "e1"

\* C23: from every dispatcher state, a call of the function returned by
\* on(event, h) is a step off(event, h) could take, and a call of the function
\* returned by onAny(h) is a step offAny(h) could take: each leaves the
\* subscription table and the wildcard set as off / offAny would.
C23_CleanupIsOff ==
  [][ \A c \in Clients, h \in Handlers :
        /\ \A e \in Events :
             OnCleanup(c, e, h) =>
               /\ Off(c, e, h)
               /\ handlers' = [handlers EXCEPT ![c][e] = SetDelete(@, h)]
               /\ wildcardHandlers' = wildcardHandlers
        /\ OnAnyCleanup(c, h) =>
               /\ OffAny(c, h)
               /\ wildcardHandlers' = [wildcardHandlers EXCEPT ![c] = SetDelete(@, h)]
               /\ handlers' = handlers
    ]_vars

\* C23 witness: the functions returned for h1 removed it from e1 and from the
\* wildcard set, where h2, subscribed before and after it, stays
C23_Witness ==
  /\ unsubscribed["b"] = {<<"e1", "h1">>, <<Wildcard, "h1">>}
  /\ handlers["b"]["e1"] = <<"h2">>
  /\ handlers["b"]["e2"] = <<"h1", "h2">>
  /\ wildcardHandlers["b"] = <<"h2">>

\* C24: a connected peer-broadcast adapter with ClientId c and a registered
\* message handler hands an inbound envelope to its handlers if and only if
\* the envelope's source is not c and the envelope has no target or has
\* target c.
C24_PeerSurfacesIffForIt ==
  [][ \A c \in Clients :
        (PeerHandleMessage(c) /\ bstate[c] = Connected /\ bmessageHandlers[c]
           /\ Head(binbox[c]).type = "__swarm_message__") =>
          LET m == Head(binbox[c]).message IN
          IF m.source # c /\ (m.target = NoTarget \/ m.target = c)
          THEN surfaced'[c] = <<m>>
          ELSE surfaced'[c] = <<>>
    ]_vars

\* C24 witness: adapter "a" was handed a broadcast of "b" while an envelope
\* with source "a" waits in the channel of "b"
C24_Witness ==
  /\ bstate["a"] = Connected /\ bmessageHandlers["a"]
  /\ surfaced["a"] # <<>>
  /\ surfaced["a"][1].source = "b" /\ surfaced["a"][1].target = NoTarget
  /\ binbox["b"] # <<>>
  /\ Head(binbox["b"]).message.source = "a"

C26_SendOrderPreserved ==
  \A i, j \in 1..Len(invoked["b"]) :
     i < j => invoked["b"][i].message.id <= invoked["b"][j].message.id

\* C26, amended: the envelopes one sender sends over one connection are handed
\* to the handlers of one receiver in the order they were sent: in the
\* invocations of "b", an envelope built earlier by "a" is handled after one
\* built later only if "a" sent the two over different ports.
C26_SendOrderPreservedPerConnection ==
  \A i, j \in 1..Len(invoked["b"]) :
     (i < j /\ sentVia[invoked["b"][i].message.id] = sentVia[invoked["b"][j].message.id])
        => invoked["b"][i].message.id <= invoked["b"][j].message.id

\* C26 witness: "a" sent two envelopes over one port and the handler of "b"
\* has been called for both, the first before the second
C26_Witness ==
  /\ Len(invoked["b"]) = 2
  /\ invoked["b"][1].message.id = 1 /\ invoked["b"][2].message.id = 2
  /\ invoked["b"][1].message.source = "a" /\ invoked["b"][2].message.source = "a"
  /\ sentVia[1] = sentVia[2]

\* C27: there is one shared hub URL. It is null until the first connect that
\* reaches the SharedWorker constructor creates it; every SharedWorker
\* constructed afterwards is given that same URL; and no step other than the
\* reset hook (no failed connect, no disconnect) clears or replaces it.
C27_SharedHubResource ==
  [][ /\ blobUrls = 0 => sharedBlobUrl = NoUrl
      /\ (sharedBlobUrl = NoUrl /\ sharedBlobUrl' # NoUrl) =>
          (\E c \in Clients :
             Connect(c) \/ \E why \in EnvironmentFailures : ConnectFails(c, why))
      /\ (sharedBlobUrl # NoUrl /\ sharedBlobUrl' # sharedBlobUrl) => ResetSharedBlobUrl
      /\ \A p \in Ports :
            (~Opened(p) /\ Opened(p)') =>
               /\ workerUrl'[p] = sharedBlobUrl' /\ workerUrl'[p] # NoUrl
               /\ sharedBlobUrl # NoUrl => workerUrl'[p] = sharedBlobUrl ]_vars

\* C27 witness: "a" connected, disconnected and connected again, a connect of
\* "b" failed in the constructor and its next one opened a port, and all three
\* SharedWorkers were constructed with the one URL, which is still the shared one
C27_Witness ==
  /\ closed[<<"a", 1>>] /\ Opened(<<"a", 2>>) /\ Opened(<<"b", 1>>)
  /\ ConnectionFailed \in rejected["b"] /\ nextPort["b"] = 1
  /\ promise[<<"b", 1>>] = "resolved"
  /\ sharedBlobUrl # NoUrl
  /\ workerUrl[<<"a", 1>>] = sharedBlobUrl
  /\ workerUrl[<<"a", 2>>] = sharedBlobUrl
  /\ workerUrl[<<"b", 1>>] = sharedBlobUrl

\* C28: disconnect() of an adapter throws nothing and leaves the adapter
\* Disconnected with no channel; called on an adapter that is already
\* Disconnected (in particular a second time in a row) it changes nothing of
\* the adapter's state and channel and posts nothing.
C28_AdapterDisconnectIdempotent ==
  [][ \A c \in Clients :
        /\ TransportDisconnect(c) =>
              /\ thrown' = "none"
              /\ tstate'[c] = Disconnected /\ tport'[c] = NoPort
              /\ tstate[c] = Disconnected =>
                    UNCHANGED <<tstate, tport, handshakeAbort, hubVars, portVars>>
        /\ PeerDisconnect(c) =>
              /\ bthrown' = "none"
              /\ bstate'[c] = Disconnected /\ ~bchannel'[c]
              /\ bstate[c] = Disconnected => UNCHANGED <<bstate, bchannel, binbox>> ]_vars

\* C28 witness: disconnect() was called on the channel-hub adapter of "a" while
\* it held a port, then again with no connect() in between: the adapter is
\* Disconnected, holds no port, and nothing was thrown
C28_Witness ==
  /\ lastCall["a"] = "adapter.disconnect again"
  /\ closed[<<"a", 1>>] /\ nextPort["a"] = 1
  /\ tstate["a"] = Disconnected /\ tport["a"] = NoPort
  /\ thrown = "none"

\* C29: the handlers of an instance are called only while the instance is
\* Connected: no step adds a handler invocation of a client whose relay is
\* Disconnected, Connecting or in Error.
C29_DispatchOnlyWhenConnected ==
  [][ \A c \in Clients : invoked'[c] # invoked[c] => rstate[c] = Connected ]_vars

\* C30: the steady-state handler of a port is active only after the
\* acknowledgment of that port's handshake: a port whose onmessage is
\* handlePortMessage, the handler that surfaces data messages, has a resolved
\* handshake, so nothing is surfaced on a port whose handshake is outstanding.
C30_SteadyStateOnlyAfterAck ==
  \A p \in Ports : onmessage[p] = "permanent" => promise[p] = "resolved"

\* C31: the hub's registry changes only when the hub handles a register
\* message, a disconnect message or a channel error; a step in which the hub
\* routes an envelope, targeted or broadcast, leaves the registry as it was.
C31_RegistryFrame ==
  [][ /\ \A p \in Ports :
            (HubMessage(p) /\ Head(toHub[p]).type = "__swarm_message__") => ports' = ports
      /\ ports' # ports =>
            \E p \in Ports :
               \/ HubMessageError(p)
               \/ /\ HubMessage(p)
                  /\ Head(toHub[p]).type \in {"__swarm_register__", "__swarm_disconnect__"} ]_vars

\* C31 witness: the hub has routed an envelope targeted at an unregistered id
\* while "a" and "b" are registered, and the registry still holds both
C31_Witness ==
  /\ dropped # {}
  /\ ports["a"] = <<"a", 1>> /\ ports["b"] = <<"b", 1>>
  /\ toHub[<<"a", 1>>] = <<>>

\* C32: a deserialization error on the channel of either adapter hands a
\* TransportError to the registered error handler (the relay's handleError, which
\* calls onError), throws nothing, and changes neither the adapter's state nor
\* the relay's.
C32_ChannelErrorReported ==
  [][ /\ \A p \in Ports :
            PortMessageError(p) =>
               /\ errorHandlers[owner(p)] => TransportError \in reported'[owner(p)]
               /\ UNCHANGED <<tstate, rstate, thrown, uncaught, rejected>>
      /\ \A c \in Clients :
            PeerMessageError(c) =>
               /\ berrorHandlers[c] => TransportError \in breported'[c]
               /\ UNCHANGED <<bstate, bchannel, bthrown>> ]_vars

\* C32 witness: the Connected relay of "a" and the Connected peer-broadcast
\* adapter of "b" have each been handed the TransportError of a channel error
C32_Witness ==
  /\ rstate["a"] = Connected /\ tstate["a"] = Connected
  /\ reported["a"] = {TransportError}
  /\ bstate["b"] = Connected /\ breported["b"] = {TransportError}

\* no register, disconnect or registered message is on its way on any port
NoControlInFlight ==
  \A p \in Ports :
     /\ \A i \in 1..Len(toHub[p]) : toHub[p][i].type = "__swarm_message__"
     /\ \A i \in 1..Len(toClient[p]) : toClient[p][i].type = "__swarm_message__"

\* C33: when no control message is in flight, every client whose relay and
\* adapter are Connected is in the hub's registry under its own ClientId with
\* the port its adapter holds, also after it disconnected and connected again
\* on a new port.
C33_ConnectedIsRegistered ==
  NoControlInFlight =>
    \A c \in Clients :
       (rstate[c] = Connected /\ tstate[c] = Connected) => ports[c] = tport[c]

\* C34: when no control message is in flight, every entry of the hub's registry
\* maps to the port of an adapter that is Connected on that port: no entry is
\* left for an adapter whose connect() failed or which disconnected.
C34_NoStaleEntry ==
  NoControlInFlight =>
    \A c \in Clients :
       ports[c] # NoPort => (tstate[c] = Connected /\ tport[c] = ports[c])

\* C35: whenever a relay is Connected its adapter is Connected too, so the
\* adapter's own check in send() raises nothing for a relay that reports
\* Connected.
C35_RelayConnectedImpliesAdapterConnected ==
  \A c \in Clients :
     rstate[c] = Connected =>
        (tstate[c] = Connected /\ TransportSendError(c) = "none")

\* the handshakes of adapter c that are neither resolved nor rejected
OutstandingHandshakes(c) == {p \in Ports : owner(p) = c /\ promise[p] = "pending"}

\* C36: an adapter has at most one handshake outstanding at any time, and a
\* connect() called while the adapter is Connecting opens no further port.
C36_OneHandshakePerAdapter ==
  \A c \in Clients : Cardinality(OutstandingHandshakes(c)) <= 1

\* port p belongs to an earlier attempt of its adapter, which now holds another port
StaleAttempt(p) == tport[owner(p)] # NoPort /\ tport[owner(p)] # p

\* C37: a message handled on the port of an earlier connection attempt, or that
\* attempt's timer, has no effect on the later attempt of the same adapter: the
\* later port's message handler, the later handshake's promise and abort handle
\* and the states of adapter and relay stay as they are.
C37_StaleAttemptHasNoEffect ==
  [][ \A p \in Ports :
        (StaleAttempt(p) /\ (PortMessage(p) \/ HandshakeTimeout(p))) =>
           /\ onmessage'[tport[owner(p)]] = onmessage[tport[owner(p)]]
           /\ promise'[tport[owner(p)]] = promise[tport[owner(p)]]
           /\ handshakeAbort'[owner(p)] = handshakeAbort[owner(p)]
           /\ tstate'[owner(p)] = tstate[owner(p)]
           /\ rstate'[owner(p)] = rstate[owner(p)]
    ]_vars

\* C38: when a handler calls disconnect() on its own instance during the
\* dispatch of an envelope, it is the last handler invoked for that envelope:
\* no wildcard or per-event handler is called after it.
C38_NoHandlerAfterSelfDisconnect ==
  [][ \A p \in Ports :
        PortMessageDisconnecting(p) =>
          \A i \in 1..Len(NewInvocations(owner(p))) :
             CallsDisconnect(NewInvocations(owner(p))[i].handler)
                => i = Len(NewInvocations(owner(p)))
    ]_vars

\* the clients whose handlers the hub transport has been invoked for envelope m
HubReached(m) ==
  {c \in Clients : \E i \in 1..Len(invoked[c]) : invoked[c][i].message = m}

\* the clients that are Connected
Live == {c \in Clients : rstate[c] = Connected}

\* the hub delivered envelope m to the target alone, or to every client but the sender
HubDeliveredAsClaimed(m) ==
  IF m.target # NoTarget
  THEN HubReached(m) = {m.target} \cap Live
  ELSE HubReached(m) = Live \ {m.source}

\* adapter c handles envelope m, which the hub has delivered before, on the
\* broadcast channel: it surfaces m exactly if the hub reached c with it
PeerAgreesWithHub(c, m) ==
  (PeerHandleMessage(c) /\ Head(binbox[c]).message = m) =>
     ((surfaced'[c] = <<m>>) <=> (c \in HubReached(m)))

\* C39 (as claimed): with all clients Connected on both transports, an envelope
\* reaches the same clients through the hub and through the broadcast channel:
\* a targeted one exactly the target, a broadcast every client but the sender.
\* The sender's own channel object never receives what it posts, so the sender
\* must not be among the clients the hub reached.
C39_TransportsDeliverAlike ==
  [][ handed # <<>> =>
        /\ \A c \in Clients : PeerAgreesWithHub(c, handed[1])
        /\ PeerSendEnvelope(handed[1].source, handed[1]) =>
              /\ HubDeliveredAsClaimed(handed[1])
              /\ handed[1].source \notin HubReached(handed[1])
    ]_vars

\* C39 (amended): the same for every envelope that is not addressed to its own
\* sender; an envelope addressed to its sender is delivered to the sender by
\* the hub and to nobody by the broadcast channel.
C39_TransportsDeliverAlikeUnlessSelfAddressed ==
  [][ handed # <<>> =>
        /\ \A c \in Clients : PeerAgreesWithHub(c, handed[1])
        /\ PeerSendEnvelope(handed[1].source, handed[1]) =>
              /\ HubDeliveredAsClaimed(handed[1])
              /\ (handed[1].source \in HubReached(handed[1]))
                    <=> (handed[1].target = handed[1].source)
    ]_vars

\* all three clients are Connected on both transports, "a" sent "b" an envelope,
\* the hub delivered it to "b" alone, and "b" and "c" have handled it on the
\* broadcast channel, where "b" surfaced it and "c" did not
C39_Witness ==
  /\ \A c \in Clients : ReadyOnBoth(c)
  /\ handed # <<>> /\ handed[1].target = "b"
  /\ HubReached(handed[1]) = {"b"}
  /\ Idle /\ \A c \in Clients : binbox[c] = <<>>
  /\ bthrown = "none"
  /\ surfaced["b"] = handed /\ surfaced["c"] = <<>>

====
